---- MODULE Spec2Model ----
(***************************************************************************)
(* Customer-intelligence pipeline: event ingestion, segments, campaigns,   *)
(* email drafts and simulated sends.  The database tables are sets of      *)
(* rows; every route handler is a little process whose steps are its       *)
(* Prisma calls, so that concurrent requests interleave at the database.   *)
(*                                                                         *)
(* Strings that the code transforms (trim, toLowerCase, ordering) are      *)
(* sequences of one-character strings.  Time is counted in whole days.     *)
(***************************************************************************)
EXTENDS Integers, Sequences, FiniteSets, TLC

\* ------------------------------------------------------------------ bounds
MaxSlots == 2          \* requests in flight at the same time
MaxEvents == 2         \* rows of the Event table
SegmentIds == {1}      \* the rows the Segment table may get
CampaignIds == {1}     \* the rows the Campaign table may get
DraftIds == {1, 2}     \* the draft ids PATCH requests name
MaxNow == 1            \* days the clock may advance
BigExtra == 2          \* BigSpec: customers beyond PREVIEW_LIMIT
MaxPhrases == 2        \* PromptSpec: phrases of a prompt

\* ------------------------------------------------------- program constants
PREVIEW_LIMIT == 50
THIRTY_DAYS == 30

\* ----------------------------------------------------------------- strings
CharOrder ==
  << " ", ".", "/", "0", "1", "2", "3", "4", "5", "6", "7", "8", "9", "@",
     "A", "B", "W", "_", "a", "b", "c", "k", "p", "s", "u", "v", "w", "x", "y" >>

Ord(c) == CHOOSE i \in 1..Len(CharOrder) : CharOrder[i] = c

IsSpace(c) == c = " "

RECURSIVE TrimStart(_)
TrimStart(s) ==
  IF s = << >> THEN << >>
  ELSE IF IsSpace(Head(s)) THEN TrimStart(Tail(s)) ELSE s

RECURSIVE TrimEnd(_)
TrimEnd(s) ==
  IF s = << >> THEN << >>
  ELSE IF IsSpace(s[Len(s)]) THEN TrimEnd(SubSeq(s, 1, Len(s) - 1)) ELSE s

\* String.prototype.trim
Trim(s) == TrimEnd(TrimStart(s))

Digits == << "0", "1", "2", "3", "4", "5", "6", "7", "8", "9" >>

LowerChar(c) ==
  CASE c = "A" -> "a"
    [] c = "B" -> "b"
    [] c = "W" -> "w"
    [] c = "P" -> "p"
    [] OTHER -> c

\* String.prototype.toLowerCase
ToLowerCase(s) == [i \in 1..Len(s) |-> LowerChar(s[i])]

\* s < t in the order of ORDER BY ... ASC
RECURSIVE LexLess(_, _)
LexLess(s, t) ==
  IF t = << >> THEN FALSE
  ELSE IF s = << >> THEN TRUE
  ELSE IF Head(s) = Head(t) THEN LexLess(Tail(s), Tail(t))
  ELSE Ord(Head(s)) < Ord(Head(t))

\* -------------------------------------------------------------- JSON values
JUndef == [t |-> "undefined"]
JNull == [t |-> "null"]
JArr == [t |-> "array"]
JStr(s) == [t |-> "string", v |-> s]
JNum(n) == [t |-> "number", v |-> n, int |-> TRUE]
JFrac(n) == [t |-> "number", v |-> n, int |-> FALSE]
JObj(f) == [t |-> "object", v |-> f]

IsStr(j) == j.t = "string"

\* d.field of a Record<string, unknown>
Field(f, k) == IF k \in DOMAIN f THEN f[k] ELSE JUndef

NoKey == "<null>"

\* ------------------------------------------------------------------- utils
\* (mutant) the email trimmed but left in its case
normalizeEmailTrimOnly(email) == Trim(email)

normalizeEmail(email) == ToLowerCase(Trim(email))

\* /^[^\s@]+@[^\s@]+\.[^\s@]+$/
isValidEmail(email) ==
  /\ \A i \in 1..Len(email) : ~IsSpace(email[i])
  /\ Cardinality({i \in 1..Len(email) : email[i] = "@"}) = 1
  /\ LET at == CHOOSE i \in 1..Len(email) : email[i] = "@"
     IN /\ at > 1
        /\ \E dot \in (at + 2)..(Len(email) - 1) : email[dot] = "."

\* ------------------------------------------------------------------- state
VARIABLES
  now,        \* the clock, in days
  customers,  \* Customer rows  [id, email]
  events,     \* Event rows     [id, customerId, type, properties (a JSON value), occurredAt,
              \*                 idempotencyKey]
  segments,   \* Segment rows   [id, definition]
  campaigns,  \* Campaign rows  [id, segmentId, segmentSnapshot, status]
  drafts,     \* EmailDraft rows [id, campaignId, customerId, subject, body, recommendedSku, status]
  sends,      \* Send rows      [id, campaignId, customerId, status, sentAt, error]
  req,        \* per slot: the request being served (or served last)
  pc,         \* per slot: the handler's next database call
  loc,        \* per slot: the handler's local variables
  resp        \* per slot: the response of the finished request

vars == << now, customers, events, segments, campaigns, drafts, sends,
           req, pc, loc, resp >>

db == << customers, events, segments, campaigns, drafts, sends >>

Slots == 1..MaxSlots

NoReq == [op |-> "none"]
NoLoc == [h |-> "none"]
NoResp == [status |-> 0]

InFlight(r) == pc[r] \notin {"idle", "done"}

\* a new request is served in the lowest slot that is not busy
FreeSlot(r) == ~InFlight(r) /\ \A q \in Slots : q < r => InFlight(q)

\* ids are handed out in creation order (rows are never deleted)
NextId(table) == Cardinality(table) + 1

Row(table, id) == CHOOSE x \in table : x.id = id

Init ==
  /\ now = 0
  /\ customers = {}
  /\ events = {}
  /\ segments = {}
  /\ campaigns = {}
  /\ drafts = {}
  /\ sends = {}
  /\ req = [r \in Slots |-> NoReq]
  /\ pc = [r \in Slots |-> "idle"]
  /\ loc = [r \in Slots |-> NoLoc]
  /\ resp = [r \in Slots |-> NoResp]

\* the handler returns NextResponse.json(body, {status}); its frame is gone
Respond(r, response) ==
  /\ pc' = [pc EXCEPT ![r] = "done"]
  /\ resp' = [resp EXCEPT ![r] = response]
  /\ loc' = [loc EXCEPT ![r] = NoLoc]

\* the handler goes on to its next database call with these locals
Goto(r, label, locals) ==
  /\ pc' = [pc EXCEPT ![r] = label]
  /\ loc' = [loc EXCEPT ![r] = locals]
  /\ UNCHANGED resp

\* a request is taken up: no response yet
Begin(r, label, locals) ==
  /\ pc' = [pc EXCEPT ![r] = label]
  /\ loc' = [loc EXCEPT ![r] = locals]
  /\ resp' = [resp EXCEPT ![r] = NoResp]

Accept(r, request) ==
  /\ FreeSlot(r)
  /\ req' = [req EXCEPT ![r] = request]

Tick ==
  /\ now < MaxNow
  /\ now' = now + 1
  /\ UNCHANGED << db, req, pc, loc, resp >>

\* ============================================================ POST /api/events
\* (mutant) the Event table without its unique index
EventKeyTakenNoIndex(customerId, key) == FALSE

\* the unique index @@unique([customerId, idempotencyKey]); NULL keys never collide
EventKeyTaken(customerId, key) ==
  /\ key # NoKey
  /\ \E e \in events : e.customerId = customerId /\ e.idempotencyKey = key

\* (mutant) the header taken as it comes, an empty one included
HeaderKeyRaw(header) == header

\* request.headers.get("Idempotency-Key") || null
HeaderKey(header) == IF header = "" THEN NoKey ELSE header

\* the handler up to its first database call: body validation
EventsValidate(body, header) ==
  LET email == IF body.email.t \notin {"undefined", "null"} THEN body.email
               ELSE body.customerEmail
  IN IF ~IsStr(email) \/ email.v = << >>
       THEN [ok |-> FALSE, error |-> "Email is required"]
     ELSE IF ~IsStr(body.type) \/ Trim(body.type.v) = << >>
       THEN [ok |-> FALSE, error |-> "Event type is required"]
     ELSE IF ~isValidEmail(normalizeEmail(email.v))
       THEN [ok |-> FALSE, error |-> "Invalid email format"]
     ELSE IF body.properties.t \notin {"undefined", "object"}
       THEN [ok |-> FALSE, error |-> "Properties must be a JSON object"]
     ELSE IF body.occurredAt.t = "baddate"
       THEN [ok |-> FALSE, error |-> "Invalid occurredAt date format"]
     ELSE [ok |-> TRUE,
           email |-> normalizeEmail(email.v),
           type |-> Trim(body.type.v),
           properties |-> IF body.properties.t = "undefined" THEN JObj(<< >>)
                          ELSE body.properties,
           occurredAt |-> IF body.occurredAt.t = "undefined" THEN now
                          ELSE now - body.occurredAt.v,
           idempotencyKey |-> HeaderKey(header)]

\* requests that will still insert an Event row
PendingEvents == Cardinality({q \in Slots : pc[q] \in {"ev_upsert", "ev_find", "ev_create"}})

EventsStart(r, body, header) ==
  /\ Accept(r, [op |-> "events", body |-> body, header |-> header])
  /\ Cardinality(events) + PendingEvents < MaxEvents
  /\ LET v == EventsValidate(body, header)
     IN IF ~v.ok
          THEN Respond(r, [status |-> 400, error |-> v.error])
          ELSE Begin(r, "ev_upsert", [h |-> "events", data |-> v, customerId |-> 0])
  /\ UNCHANGED << now, db >>

\* prisma.customer.upsert({where: {email}, update: {}, create: {email}})
EventsUpsertCustomer(r) ==
  /\ pc[r] = "ev_upsert"
  /\ LET email == loc[r].data.email
         found == {c \in customers : c.email = email}
         id == IF found = {} THEN NextId(customers) ELSE (CHOOSE c \in found : TRUE).id
     IN /\ customers' = IF found = {} THEN customers \cup {[id |-> id, email |-> email]}
                        ELSE customers
        /\ Goto(r, IF loc[r].data.idempotencyKey # NoKey THEN "ev_find" ELSE "ev_create",
                [loc[r] EXCEPT !.customerId = id])
  /\ UNCHANGED << now, events, segments, campaigns, drafts, sends, req >>

\* (mutant) the handler without its lookup of an existing event
EventsFindExistingSkipped(r) ==
  /\ pc[r] = "ev_find"
  /\ Goto(r, "ev_create", loc[r])
  /\ UNCHANGED << now, db, req >>

\* prisma.event.findFirst({where: {customerId, idempotencyKey}})
EventsFindExisting(r) ==
  /\ pc[r] = "ev_find"
  /\ LET found == {e \in events : /\ e.customerId = loc[r].customerId
                                   /\ e.idempotencyKey = loc[r].data.idempotencyKey}
     IN IF found # {}
          THEN \E e \in found :
                 Respond(r, [status |-> 200, created |-> FALSE, eventId |-> e.id,
                             customerId |-> loc[r].customerId])
          ELSE Goto(r, "ev_create", loc[r])
  /\ UNCHANGED << now, db, req >>

\* prisma.event.create(...); a unique-constraint violation is thrown and
\* caught by the handler's catch block, which answers 500
EventsCreate(r) ==
  /\ pc[r] = "ev_create"
  /\ LET d == loc[r].data
         id == NextId(events)
     IN IF EventKeyTaken(loc[r].customerId, d.idempotencyKey)
          THEN /\ Respond(r, [status |-> 500, error |-> "Internal server error"])
               /\ UNCHANGED events
          ELSE /\ events' = events \cup
                     {[id |-> id, customerId |-> loc[r].customerId, type |-> d.type,
                       properties |-> d.properties, occurredAt |-> d.occurredAt,
                       idempotencyKey |-> d.idempotencyKey]}
               /\ Respond(r, [status |-> 201, created |-> TRUE, eventId |-> id,
                              customerId |-> loc[r].customerId])
  /\ UNCHANGED << now, customers, segments, campaigns, drafts, sends, req >>

\* ====================================================== lib/segments.ts
KnownKinds == {"event_type_in_last_days", "event_property_equals",
               "event_count_gte_in_last_days"}

NonEmptyString(j) == IsStr(j) /\ Trim(j.v) # << >>

\* typeof x === "number" && Number.isInteger(x) && x > 0
PositiveInteger(j) == j.t = "number" /\ j.int /\ j.v > 0

Invalid(error) == [valid |-> FALSE, error |-> error]

validateEventTypeInLastDays(d) ==
  IF ~NonEmptyString(Field(d, "eventType"))
    THEN Invalid(<< "eventType must be a non-empty string" >>)
  ELSE IF ~PositiveInteger(Field(d, "days"))
    THEN Invalid(<< "days must be a positive integer" >>)
  ELSE [valid |-> TRUE,
        definition |-> [kind |-> "event_type_in_last_days",
                        eventType |-> Trim(d["eventType"].v),
                        days |-> d["days"].v]]

\* (mutant) event_property_equals with an empty value refused
validateEventPropertyEqualsNonEmptyValue(d) ==
  IF ~NonEmptyString(Field(d, "eventType"))
    THEN Invalid(<< "eventType must be a non-empty string" >>)
  ELSE IF ~NonEmptyString(Field(d, "path"))
    THEN Invalid(<< "path must be a non-empty string" >>)
  ELSE IF ~NonEmptyString(Field(d, "value"))
    THEN Invalid(<< "value must be a string" >>)
  ELSE IF ~PositiveInteger(Field(d, "days"))
    THEN Invalid(<< "days must be a positive integer" >>)
  ELSE [valid |-> TRUE,
        definition |-> [kind |-> "event_property_equals",
                        eventType |-> Trim(d["eventType"].v),
                        path |-> Trim(d["path"].v),
                        value |-> d["value"].v,
                        days |-> d["days"].v]]

validateEventPropertyEquals(d) ==
  IF ~NonEmptyString(Field(d, "eventType"))
    THEN Invalid(<< "eventType must be a non-empty string" >>)
  ELSE IF ~NonEmptyString(Field(d, "path"))
    THEN Invalid(<< "path must be a non-empty string" >>)
  ELSE IF ~IsStr(Field(d, "value"))
    THEN Invalid(<< "value must be a string" >>)
  ELSE IF ~PositiveInteger(Field(d, "days"))
    THEN Invalid(<< "days must be a positive integer" >>)
  ELSE [valid |-> TRUE,
        definition |-> [kind |-> "event_property_equals",
                        eventType |-> Trim(d["eventType"].v),
                        path |-> Trim(d["path"].v),
                        value |-> d["value"].v,
                        days |-> d["days"].v]]

validateEventCountGteInLastDays(d) ==
  IF ~NonEmptyString(Field(d, "eventType"))
    THEN Invalid(<< "eventType must be a non-empty string" >>)
  ELSE IF ~PositiveInteger(Field(d, "days"))
    THEN Invalid(<< "days must be a positive integer" >>)
  ELSE IF ~PositiveInteger(Field(d, "minCount"))
    THEN Invalid(<< "minCount must be a positive integer" >>)
  ELSE [valid |-> TRUE,
        definition |-> [kind |-> "event_count_gte_in_last_days",
                        eventType |-> Trim(d["eventType"].v),
                        days |-> d["days"].v,
                        minCount |-> d["minCount"].v]]

\* (mutant) an unknown kind refused without saying which
validateSegmentDefinitionAnonymous(def) ==
  IF def.t # "object"
    THEN Invalid(<< "Definition must be a JSON object" >>)
  ELSE IF Field(def.v, "kind").t # "string"
    THEN Invalid(<< "Definition must have a 'kind' field" >>)
  ELSE LET d == def.v
           kind == d["kind"].v
       IN CASE kind = "event_type_in_last_days" -> validateEventTypeInLastDays(d)
            [] kind = "event_property_equals" -> validateEventPropertyEquals(d)
            [] kind = "event_count_gte_in_last_days" -> validateEventCountGteInLastDays(d)
            [] OTHER -> Invalid(<< "Unknown definition kind" >>)

validateSegmentDefinition(def) ==
  IF def.t # "object"
    THEN Invalid(<< "Definition must be a JSON object" >>)
  ELSE IF Field(def.v, "kind").t # "string"
    THEN Invalid(<< "Definition must have a 'kind' field" >>)
  ELSE LET d == def.v
           kind == d["kind"].v
       IN CASE kind = "event_type_in_last_days" -> validateEventTypeInLastDays(d)
            [] kind = "event_property_equals" -> validateEventPropertyEquals(d)
            [] kind = "event_count_gte_in_last_days" -> validateEventCountGteInLastDays(d)
            [] OTHER -> Invalid(<< "Unknown definition kind: '", kind, "'" >>)

\* a typed SegmentDefinition as it is written to a Json column
DefinitionJson(def) ==
  JObj([k \in DOMAIN def |->
         IF k \in {"days", "minCount"} THEN JNum(def[k]) ELSE JStr(def[k])])

\* ================================================= lib/segmentPreview.ts
Min(a, b) == IF a < b THEN a ELSE b

\* cutoff.setDate(cutoff.getDate() - definition.days)
Cutoff(days) == now - days

\* (mutant) the window without its first instant
InWindowStrict(e, eventType, cutoff) == e.type = eventType /\ e.occurredAt > cutoff

InWindow(e, eventType, cutoff) == e.type = eventType /\ e.occurredAt >= cutoff

evaluateEventTypeInLastDays(eventType, cutoff) ==
  {e.customerId : e \in {x \in events : InWindow(x, eventType, cutoff)}}

\* properties: {path: [path], equals: value}
evaluateEventPropertyEquals(eventType, path, value, cutoff) ==
  {e.customerId : e \in {x \in events : /\ InWindow(x, eventType, cutoff)
                                          /\ x.properties.t = "object"
                                          /\ path \in DOMAIN x.properties.v
                                          /\ x.properties.v[path] = JStr(value)}}

\* (mutant) having count > minCount
evaluateEventCountGteStrict(eventType, cutoff, minCount) ==
  LET matching == {e \in events : InWindow(e, eventType, cutoff)}
  IN {id \in {e.customerId : e \in matching} :
        Cardinality({e \in matching : e.customerId = id}) > minCount}

\* groupBy customerId ... having count >= minCount
evaluateEventCountGte(eventType, cutoff, minCount) ==
  LET matching == {e \in events : InWindow(e, eventType, cutoff)}
  IN {id \in {e.customerId : e \in matching} :
        Cardinality({e \in matching : e.customerId = id}) >= minCount}

\* the first query of evaluateSegment: the ids of the matching customers
MatchingIds(definition) ==
  CASE definition.kind = "event_type_in_last_days" ->
         evaluateEventTypeInLastDays(definition.eventType, Cutoff(definition.days))
    [] definition.kind = "event_property_equals" ->
         evaluateEventPropertyEquals(definition.eventType, definition.path,
                                     definition.value, Cutoff(definition.days))
    [] definition.kind = "event_count_gte_in_last_days" ->
         evaluateEventCountGte(definition.eventType, Cutoff(definition.days),
                               definition.minCount)

\* orderBy: {email: "asc"}
RECURSIVE SortByEmail(_)
SortByEmail(rows) ==
  IF rows = {} THEN << >>
  ELSE LET first == CHOOSE c \in rows : \A o \in rows \ {c} : LexLess(c.email, o.email)
       IN << first >> \o SortByEmail(rows \ {first})

Take(seq, n) == SubSeq(seq, 1, Min(n, Len(seq)))

\* (mutant) the count taken from the capped list
fetchCustomersCappedCount(customerIds) ==
  IF customerIds = {} THEN [count |-> 0, customers |-> << >>]
  ELSE LET list == Take(SortByEmail({c \in customers : c.id \in customerIds}),
                        PREVIEW_LIMIT)
       IN [count |-> Len(list), customers |-> list]

\* the second query: findMany({where: {id: {in}}, take: PREVIEW_LIMIT, orderBy})
fetchCustomers(customerIds) ==
  IF customerIds = {} THEN [count |-> 0, customers |-> << >>]
  ELSE [count |-> Cardinality(customerIds),
        customers |-> Take(SortByEmail({c \in customers : c.id \in customerIds}),
                           PREVIEW_LIMIT)]

\* ============================================= GET /api/segments/[id]/preview
PreviewStart(r, id) ==
  /\ Accept(r, [op |-> "preview", id |-> id])
  /\ Begin(r, "pv_find", NoLoc)
  /\ UNCHANGED << now, db >>

\* prisma.segment.findUnique, then validateSegmentDefinition(segment.definition)
PreviewFindSegment(r) ==
  /\ pc[r] = "pv_find"
  /\ LET found == {x \in segments : x.id = req[r].id}
     IN IF found = {}
          THEN Respond(r, [status |-> 404, error |-> << "Segment not found" >>])
          ELSE LET segment == CHOOSE x \in found : TRUE
                   result == validateSegmentDefinition(segment.definition)
               IN IF ~result.valid
                    THEN Respond(r, [status |-> 400,
                                     error |-> << "Invalid segment definition: " >>
                                                 \o result.error])
                    ELSE Goto(r, "pv_match",
                              [h |-> "preview", definition |-> result.definition,
                               customerIds |-> {}])
  /\ UNCHANGED << now, db, req >>

\* evaluateSegment, first query; with no match fetchCustomers answers at once
PreviewMatch(r) ==
  /\ pc[r] = "pv_match"
  /\ LET ids == MatchingIds(loc[r].definition)
     IN IF ids = {}
          THEN Respond(r, [status |-> 200, count |-> 0, customers |-> << >>])
          ELSE Goto(r, "pv_fetch", [loc[r] EXCEPT !.customerIds = ids])
  /\ UNCHANGED << now, db, req >>

\* evaluateSegment, second query, and the response
PreviewFetchCustomers(r) ==
  /\ pc[r] = "pv_fetch"
  /\ LET preview == fetchCustomers(loc[r].customerIds)
     IN Respond(r, [status |-> 200, count |-> preview.count,
                    customers |-> preview.customers])
  /\ UNCHANGED << now, db, req >>

\* ========================================================= POST /api/segments
ValidName(name) == IsStr(name) /\ Trim(name.v) # << >>

\* (mutant) the definition stored as it was sent, valid or not
SegmentsPostUnvalidated(r, body) ==
  /\ Accept(r, [op |-> "segments", body |-> body])
  /\ NextId(segments) \in SegmentIds
  /\ IF ~ValidName(body.name)
       THEN /\ Respond(r, [status |-> 400, error |-> << "Segment name is required" >>])
            /\ UNCHANGED segments
     ELSE /\ segments' = segments \cup
                {[id |-> NextId(segments), definition |-> body.definition]}
          /\ Respond(r, [status |-> 201, segmentId |-> NextId(segments)])
  /\ UNCHANGED << now, customers, events, campaigns, drafts, sends >>

SegmentsPost(r, body) ==
  /\ Accept(r, [op |-> "segments", body |-> body])
  /\ NextId(segments) \in SegmentIds
  /\ LET result == validateSegmentDefinition(body.definition)
     IN IF ~ValidName(body.name)
          THEN /\ Respond(r, [status |-> 400, error |-> << "Segment name is required" >>])
               /\ UNCHANGED segments
        ELSE IF ~result.valid
          THEN /\ Respond(r, [status |-> 400, error |-> result.error])
               /\ UNCHANGED segments
        ELSE /\ segments' = segments \cup
                   {[id |-> NextId(segments),
                     definition |-> DefinitionJson(result.definition)]}
             /\ Respond(r, [status |-> 201, segmentId |-> NextId(segments)])
  /\ UNCHANGED << now, customers, events, campaigns, drafts, sends >>

\* a later edit of a stored segment's definition (no route of the
\* application does it; the data model allows it)
SegmentEdit(id, definition) ==
  /\ \E s \in segments :
       /\ s.id = id
       /\ s.definition # DefinitionJson(definition)
       /\ segments' = (segments \ {s}) \cup
                        {[s EXCEPT !.definition = DefinitionJson(definition)]}
  /\ UNCHANGED << now, customers, events, campaigns, drafts, sends, req, pc, loc, resp >>

\* ======================================================== POST /api/campaigns
CampaignsStart(r, body) ==
  /\ Accept(r, [op |-> "campaigns", body |-> body])
  /\ Cardinality(campaigns)
       + Cardinality({q \in Slots : pc[q] \in {"camp_find", "camp_create"}})
         < Cardinality(CampaignIds)
  /\ IF ~ValidName(body.name)
       THEN Respond(r, [status |-> 400, error |-> << "Campaign name is required" >>])
     ELSE IF body.segmentId = 0
       THEN Respond(r, [status |-> 400, error |-> << "segmentId is required" >>])
     ELSE Begin(r, "camp_find", NoLoc)
  /\ UNCHANGED << now, db >>

\* prisma.segment.findUnique({where: {id: body.segmentId}})
CampaignsFindSegment(r) ==
  /\ pc[r] = "camp_find"
  /\ LET found == {s \in segments : s.id = req[r].body.segmentId}
     IN IF found = {}
          THEN Respond(r, [status |-> 404, error |-> << "Segment not found" >>])
          ELSE Goto(r, "camp_create",
                    [h |-> "campaigns", segment |-> CHOOSE s \in found : TRUE])
  /\ UNCHANGED << now, db, req >>

\* prisma.campaign.create({data: {segmentId, segmentSnapshot: segment.definition, status: "draft"}})
CampaignsCreate(r) ==
  /\ pc[r] = "camp_create"
  /\ campaigns' = campaigns \cup
       {[id |-> NextId(campaigns), segmentId |-> loc[r].segment.id,
         segmentSnapshot |-> loc[r].segment.definition, status |-> "draft"]}
  /\ Respond(r, [status |-> 201, campaignId |-> NextId(campaigns)])
  /\ UNCHANGED << now, customers, events, segments, drafts, sends, req >>

\* ===================================================== lib/campaignUtils.ts
KeySku == << "s", "k", "u" >>

\* (mutant) any string sku taken, a blank one too
RECURSIVE extractRecommendedSkuAnyString(_)
extractRecommendedSkuAnyString(evs) ==
  IF evs = << >> THEN JNull
  ELSE LET props == Head(evs).properties
           sku == IF props.t = "object" THEN Field(props.v, KeySku) ELSE JUndef
       IN IF IsStr(sku) THEN JStr(Trim(sku.v))
          ELSE extractRecommendedSkuAnyString(Tail(evs))

RECURSIVE extractRecommendedSku(_)
extractRecommendedSku(evs) ==
  IF evs = << >> THEN JNull
  ELSE LET props == Head(evs).properties
           sku == IF props.t = "object" THEN Field(props.v, KeySku) ELSE JUndef
       IN IF IsStr(sku) /\ Trim(sku.v) # << >> THEN JStr(Trim(sku.v))
          ELSE extractRecommendedSku(Tail(evs))

\* events[0]?.type
extractRecentEventType(evs) == IF evs = << >> THEN JUndef ELSE JStr(Head(evs).type)

\* ===================================================== lib/smartDraft/mock.ts
\* customerEmail.split("@")[0]
RECURSIVE BeforeAt(_)
BeforeAt(s) ==
  IF s = << >> \/ Head(s) = "@" THEN << >> ELSE << Head(s) >> \o BeforeAt(Tail(s))

\* eventType.replace(/_/g, " ")
formatEventType(eventType) ==
  [i \in 1..Len(eventType) |-> IF eventType[i] = "_" THEN " " ELSE eventType[i]]

Truthy(j) == IsStr(j) /\ j.v # << >>

smartGenerateDraft(customerEmail, recentEventType, recommendedSku) ==
  LET firstName == BeforeAt(customerEmail)
      activity == IF Truthy(recentEventType) THEN formatEventType(recentEventType.v)
                  ELSE << "recently visited us" >>
  IN IF Truthy(recommendedSku) /\ Truthy(recentEventType)
       THEN [subject |-> << "Still thinking about ", recommendedSku.v, "?" >>,
             body |-> << "Hi ", firstName, ", We noticed you ", activity,
                         " and showed interest in ", recommendedSku.v, ". Shop now" >>]
     ELSE IF Truthy(recommendedSku)
       THEN [subject |-> << "Still thinking about ", recommendedSku.v, "?" >>,
             body |-> << "Hi ", firstName, ", We think ", recommendedSku.v,
                         " would be perfect for you. Shop now" >>]
     ELSE IF Truthy(recentEventType)
       THEN [subject |-> << "We have something special for you" >>,
             body |-> << "Hi ", firstName, ", Thank you for ", activity,
                         ". Explore our latest" >>]
     ELSE [subject |-> << "We have something special for you" >>,
           body |-> << "Hi ", firstName, ", We'd love to reconnect. Explore now" >>]

\* ====================================== POST /api/campaigns/[id]/generate-drafts
\* the orders in which findMany(orderBy: {occurredAt: "desc"}) may return rows
OrderedDesc(rows) ==
  {s \in [1..Cardinality(rows) -> rows] :
     /\ \A i, j \in DOMAIN s : i < j => s[i] # s[j] /\ s[i].occurredAt >= s[j].occurredAt}

GenerateStart(r, id) ==
  /\ Accept(r, [op |-> "generate", id |-> id])
  /\ Begin(r, "gen_find", NoLoc)
  /\ UNCHANGED << now, db >>

\* (mutant) generate-drafts reading the segment's current definition
GenerateFindCampaignLive(r) ==
  /\ pc[r] = "gen_find"
  /\ LET found == {c \in campaigns : c.id = req[r].id}
     IN IF found = {}
          THEN Respond(r, [status |-> 404, error |-> << "Campaign not found" >>])
          ELSE LET campaign == CHOOSE c \in found : TRUE
                   result == validateSegmentDefinition(
                               Row(segments, campaign.segmentId).definition)
               IN IF ~result.valid
                    THEN Respond(r, [status |-> 400,
                                     error |-> << "Invalid segment snapshot: " >> \o result.error])
                    ELSE Goto(r, "gen_match",
                              [h |-> "generate", definition |-> result.definition,
                               customerIds |-> {}, preview |-> << >>,
                               recentEvents |-> {}, i |-> 1, draftedCount |-> 0])
  /\ UNCHANGED << now, db, req >>

\* (mutant) an invalid snapshot taken for a segment that matches nobody
GenerateFindCampaignLenient(r) ==
  /\ pc[r] = "gen_find"
  /\ LET found == {c \in campaigns : c.id = req[r].id}
     IN IF found = {}
          THEN Respond(r, [status |-> 404, error |-> << "Campaign not found" >>])
          ELSE LET campaign == CHOOSE c \in found : TRUE
                   result == validateSegmentDefinition(campaign.segmentSnapshot)
               IN IF ~result.valid
                    THEN Respond(r, [status |-> 200, draftedCount |-> 0])
                    ELSE Goto(r, "gen_match",
                              [h |-> "generate", definition |-> result.definition,
                               customerIds |-> {}, preview |-> << >>,
                               recentEvents |-> {}, i |-> 1, draftedCount |-> 0])
  /\ UNCHANGED << now, db, req >>

\* prisma.campaign.findUnique, then validateSegmentDefinition(campaign.segmentSnapshot)
GenerateFindCampaign(r) ==
  /\ pc[r] = "gen_find"
  /\ LET found == {c \in campaigns : c.id = req[r].id}
     IN IF found = {}
          THEN Respond(r, [status |-> 404, error |-> << "Campaign not found" >>])
          ELSE LET campaign == CHOOSE c \in found : TRUE
                   result == validateSegmentDefinition(campaign.segmentSnapshot)
               IN IF ~result.valid
                    THEN Respond(r, [status |-> 400,
                                     error |-> << "Invalid segment snapshot: " >> \o result.error])
                    ELSE Goto(r, "gen_match",
                              [h |-> "generate", definition |-> result.definition,
                               customerIds |-> {}, preview |-> << >>,
                               recentEvents |-> {}, i |-> 1, draftedCount |-> 0])
  /\ UNCHANGED << now, db, req >>

\* (mutant) the campaign advanced to drafted although nobody matched
GenerateMatchAdvancing(r) ==
  /\ pc[r] = "gen_match"
  /\ LET ids == MatchingIds(loc[r].definition)
     IN IF ids = {}
          THEN /\ Respond(r, [status |-> 200, draftedCount |-> 0])
               /\ campaigns' = {IF c.id = req[r].id THEN [c EXCEPT !.status = "drafted"]
                                 ELSE c : c \in campaigns}
          ELSE /\ Goto(r, "gen_fetch", [loc[r] EXCEPT !.customerIds = ids])
               /\ UNCHANGED campaigns
  /\ UNCHANGED << now, customers, events, segments, drafts, sends, req >>

\* evaluateSegment, first query: the matching customer ids; with none,
\* fetchCustomers answers without a query and the handler returns draftedCount 0
GenerateMatch(r) ==
  /\ pc[r] = "gen_match"
  /\ LET ids == MatchingIds(loc[r].definition)
     IN IF ids = {}
          THEN Respond(r, [status |-> 200, draftedCount |-> 0])
          ELSE Goto(r, "gen_fetch", [loc[r] EXCEPT !.customerIds = ids])
  /\ UNCHANGED << now, db, req >>

\* evaluateSegment, second query: fetchCustomers
GenerateFetchCustomers(r) ==
  /\ pc[r] = "gen_fetch"
  /\ LET preview == fetchCustomers(loc[r].customerIds)
     IN IF Len(preview.customers) = 0
          THEN Respond(r, [status |-> 200, draftedCount |-> 0])
          ELSE Goto(r, "gen_events", [loc[r] EXCEPT !.preview = preview.customers])
  /\ UNCHANGED << now, db, req >>

\* prisma.event.findMany({where: {customerId: {in}, occurredAt: {gte: cutoff}}})
GenerateRecentEvents(r) ==
  /\ pc[r] = "gen_events"
  /\ LET ids == {loc[r].preview[k].id : k \in DOMAIN loc[r].preview}
     IN Goto(r, "gen_upsert",
             [loc[r] EXCEPT !.recentEvents =
                {e \in events : e.customerId \in ids /\ e.occurredAt >= now - THIRTY_DAYS}])
  /\ UNCHANGED << now, db, req >>

\* (mutant) a plain create in place of the upsert
UpsertDraftAlwaysCreate(campaignId, customerId, fields) ==
  drafts \cup {[id |-> NextId(drafts), campaignId |-> campaignId,
                customerId |-> customerId, subject |-> fields.subject,
                body |-> fields.body, recommendedSku |-> fields.recommendedSku,
                status |-> "generated"]}

\* (mutant) an upsert whose update branch also resets the status
UpsertDraftResetStatus(campaignId, customerId, fields) ==
  LET found == {d \in drafts : d.campaignId = campaignId /\ d.customerId = customerId}
  IN IF found = {}
       THEN drafts \cup {[id |-> NextId(drafts), campaignId |-> campaignId,
                          customerId |-> customerId, subject |-> fields.subject,
                          body |-> fields.body, recommendedSku |-> fields.recommendedSku,
                          status |-> "generated"]}
     ELSE (drafts \ found) \cup
            {[d EXCEPT !.subject = fields.subject, !.body = fields.body,
                       !.recommendedSku = fields.recommendedSku,
                       !.status = "generated"] : d \in found}

\* (mutant) an upsert whose update branch writes nothing
UpsertDraftKeepFirst(campaignId, customerId, fields) ==
  LET found == {d \in drafts : d.campaignId = campaignId /\ d.customerId = customerId}
  IN IF found = {}
       THEN drafts \cup {[id |-> NextId(drafts), campaignId |-> campaignId,
                          customerId |-> customerId, subject |-> fields.subject,
                          body |-> fields.body, recommendedSku |-> fields.recommendedSku,
                          status |-> "generated"]}
     ELSE drafts

\* prisma.emailDraft.upsert({where: {campaignId_customerId}, update, create})
UpsertDraft(campaignId, customerId, fields) ==
  LET found == {d \in drafts : d.campaignId = campaignId /\ d.customerId = customerId}
  IN IF found = {}
       THEN drafts \cup {[id |-> NextId(drafts), campaignId |-> campaignId,
                          customerId |-> customerId, subject |-> fields.subject,
                          body |-> fields.body, recommendedSku |-> fields.recommendedSku,
                          status |-> "generated"]}
     ELSE (drafts \ found) \cup
            {[d EXCEPT !.subject = fields.subject, !.body = fields.body,
                       !.recommendedSku = fields.recommendedSku] : d \in found}

\* one turn of the loop over preview.customers
GenerateUpsert(r) ==
  /\ pc[r] = "gen_upsert"
  /\ LET customer == loc[r].preview[loc[r].i]
         mine == {e \in loc[r].recentEvents : e.customerId = customer.id}
     IN \E evs \in OrderedDesc(mine) :
          LET recommendedSku == extractRecommendedSku(evs)
              recentEventType == extractRecentEventType(evs)
              copy == smartGenerateDraft(customer.email, recentEventType, recommendedSku)
          IN drafts' = UpsertDraft(req[r].id, customer.id,
                                   [subject |-> copy.subject, body |-> copy.body,
                                    recommendedSku |-> recommendedSku])
  /\ Goto(r, IF loc[r].i = Len(loc[r].preview) THEN "gen_status" ELSE "gen_upsert",
          [loc[r] EXCEPT !.i = @ + 1, !.draftedCount = @ + 1])
  /\ UNCHANGED << now, customers, events, segments, campaigns, sends, req >>

\* (mutant) the drafts of customers who no longer match deleted at the end
GenerateStatusPruning(r) ==
  /\ pc[r] = "gen_status"
  /\ campaigns' = IF loc[r].draftedCount > 0
                   THEN {IF c.id = req[r].id THEN [c EXCEPT !.status = "drafted"] ELSE c
                           : c \in campaigns}
                   ELSE campaigns
  /\ drafts' = {d \in drafts :
                  d.campaignId = req[r].id =>
                    \E k \in DOMAIN loc[r].preview : loc[r].preview[k].id = d.customerId}
  /\ Respond(r, [status |-> 200, draftedCount |-> loc[r].draftedCount])
  /\ UNCHANGED << now, customers, events, segments, sends, req >>

\* if (draftedCount > 0) prisma.campaign.update({data: {status: "drafted"}})
GenerateStatus(r) ==
  /\ pc[r] = "gen_status"
  /\ campaigns' = IF loc[r].draftedCount > 0
                   THEN {IF c.id = req[r].id THEN [c EXCEPT !.status = "drafted"] ELSE c
                           : c \in campaigns}
                   ELSE campaigns
  /\ Respond(r, [status |-> 200, draftedCount |-> loc[r].draftedCount])
  /\ UNCHANGED << now, customers, events, segments, drafts, sends, req >>

\* ================================ PATCH /api/campaigns/[id]/drafts/[draftId]
ALLOWED_STATUSES == {"approved", "rejected"}

PatchStart(r, campaignId, draftId, body) ==
  /\ Accept(r, [op |-> "patch", campaignId |-> campaignId, draftId |-> draftId,
                body |-> body])
  /\ IF body.t # "object"
       THEN Respond(r, [status |-> 400, error |-> << "Invalid JSON body" >>])
     ELSE IF ~(IsStr(Field(body.v, "status")) /\ body.v["status"].v \in ALLOWED_STATUSES)
       THEN Respond(r, [status |-> 400, error |-> << "status must be one of: approved, rejected" >>])
     ELSE Begin(r, "patch_find", NoLoc)
  /\ UNCHANGED << now, db >>

\* (mutant) the handler without its check of the current status
PatchFindUnchecked(r) ==
  /\ pc[r] = "patch_find"
  /\ LET found == {d \in drafts : d.id = req[r].draftId /\ d.campaignId = req[r].campaignId}
     IN IF found = {}
          THEN Respond(r, [status |-> 404, error |-> << "Draft not found" >>])
          ELSE Goto(r, "patch_update",
                    [h |-> "patch", existing |-> CHOOSE d \in found : TRUE])
  /\ UNCHANGED << now, db, req >>

\* prisma.emailDraft.findFirst({where: {id: draftId, campaignId}}) and the status check
PatchFind(r) ==
  /\ pc[r] = "patch_find"
  /\ LET found == {d \in drafts : d.id = req[r].draftId /\ d.campaignId = req[r].campaignId}
     IN IF found = {}
          THEN Respond(r, [status |-> 404, error |-> << "Draft not found" >>])
          ELSE LET existing == CHOOSE d \in found : TRUE
               IN IF existing.status # "generated"
                    THEN Respond(r, [status |-> 409,
                                     error |-> << "Cannot transition draft from status ",
                                                  existing.status >>])
                    ELSE Goto(r, "patch_update", [h |-> "patch", existing |-> existing])
  /\ UNCHANGED << now, db, req >>

\* prisma.emailDraft.update({where: {id: draftId}, data: {status}})
PatchUpdate(r) ==
  /\ pc[r] = "patch_update"
  /\ LET d == Row(drafts, req[r].draftId)
         updated == [d EXCEPT !.status = req[r].body.v["status"].v]
     IN /\ drafts' = (drafts \ {d}) \cup {updated}
        /\ Respond(r, [status |-> 200, draft |-> updated])
  /\ UNCHANGED << now, customers, events, segments, campaigns, sends, req >>

\* ============================================== POST /api/campaigns/[id]/send
simulatedSuccess == TRUE

SendStart(r, id) ==
  /\ Accept(r, [op |-> "send", id |-> id])
  /\ Begin(r, "send_find", NoLoc)
  /\ UNCHANGED << now, db >>

\* (mutant) the campaign loaded with all its drafts
SendFindAllDrafts(r) ==
  /\ pc[r] = "send_find"
  /\ LET approved == {d \in drafts : d.campaignId = req[r].id}
     IN IF ~\E c \in campaigns : c.id = req[r].id
          THEN Respond(r, [status |-> 404, error |-> << "Campaign not found" >>])
        ELSE IF approved = {}
          THEN Respond(r, [status |-> 400, error |-> << "No approved drafts to send" >>])
        ELSE Goto(r, "send_upsert",
                  [h |-> "send", drafts |-> approved, sentCount |-> 0, failedCount |-> 0])
  /\ UNCHANGED << now, db, req >>

\* (mutant) the handler without its check for an empty list of drafts
SendFindUnchecked(r) ==
  /\ pc[r] = "send_find"
  /\ LET approved == {d \in drafts : d.campaignId = req[r].id /\ d.status = "approved"}
     IN IF ~\E c \in campaigns : c.id = req[r].id
          THEN Respond(r, [status |-> 404, error |-> << "Campaign not found" >>])
        ELSE Goto(r, IF approved = {} THEN "send_status" ELSE "send_upsert",
                  [h |-> "send", drafts |-> approved, sentCount |-> 0, failedCount |-> 0])
  /\ UNCHANGED << now, db, req >>

\* prisma.campaign.findUnique({include: {drafts: {where: {status: "approved"}}}})
SendFind(r) ==
  /\ pc[r] = "send_find"
  /\ LET approved == {d \in drafts : d.campaignId = req[r].id /\ d.status = "approved"}
     IN IF ~\E c \in campaigns : c.id = req[r].id
          THEN Respond(r, [status |-> 404, error |-> << "Campaign not found" >>])
        ELSE IF approved = {}
          THEN Respond(r, [status |-> 400, error |-> << "No approved drafts to send" >>])
        ELSE Goto(r, "send_upsert",
                  [h |-> "send", drafts |-> approved, sentCount |-> 0, failedCount |-> 0])
  /\ UNCHANGED << now, db, req >>

\* prisma.send.upsert({where: {campaignId_customerId}, update, create})
NoDate == -1
NoError == "<null>"

\* (mutant) a plain create in place of the upsert
UpsertSendAlwaysCreate(campaignId, customerId, update, create) ==
  sends \cup {[id |-> NextId(sends), campaignId |-> campaignId,
               customerId |-> customerId, status |-> create.status,
               sentAt |-> create.sentAt, error |-> create.error]}

UpsertSend(campaignId, customerId, update, create) ==
  LET found == {x \in sends : x.campaignId = campaignId /\ x.customerId = customerId}
  IN IF found = {}
       THEN sends \cup {[id |-> NextId(sends), campaignId |-> campaignId,
                         customerId |-> customerId, status |-> create.status,
                         sentAt |-> create.sentAt, error |-> create.error]}
     ELSE (sends \ found) \cup
            {[k \in DOMAIN x |-> IF k \in DOMAIN update THEN update[k] ELSE x[k]]
               : x \in found}

\* one turn of the loop over campaign.drafts (returned in no particular order)
SendUpsert(r) ==
  /\ pc[r] = "send_upsert"
  /\ \E draft \in loc[r].drafts :
       /\ IF simulatedSuccess
            THEN /\ sends' = UpsertSend(req[r].id, draft.customerId,
                                        [status |-> "sent", sentAt |-> now, error |-> NoError],
                                        [status |-> "sent", sentAt |-> now, error |-> NoError])
                 /\ Goto(r, IF loc[r].drafts = {draft} THEN "send_status" ELSE "send_upsert",
                         [loc[r] EXCEPT !.drafts = @ \ {draft}, !.sentCount = @ + 1])
            ELSE /\ sends' = UpsertSend(req[r].id, draft.customerId,
                                        [status |-> "failed", error |-> "Simulated send failure"],
                                        [status |-> "failed", sentAt |-> NoDate,
                                         error |-> "Simulated send failure"])
                 /\ Goto(r, IF loc[r].drafts = {draft} THEN "send_status" ELSE "send_upsert",
                         [loc[r] EXCEPT !.drafts = @ \ {draft}, !.failedCount = @ + 1])
  /\ UNCHANGED << now, customers, events, segments, campaigns, drafts, req >>

\* prisma.campaign.update({data: {status: newStatus}})
SendStatus(r) ==
  /\ pc[r] = "send_status"
  /\ LET newStatus == IF loc[r].failedCount = 0 THEN "sent"
                      ELSE IF loc[r].sentCount = 0 THEN "failed" ELSE "sent"
     IN campaigns' = {IF c.id = req[r].id THEN [c EXCEPT !.status = newStatus] ELSE c
                        : c \in campaigns}
  /\ Respond(r, [status |-> 200, sentCount |-> loc[r].sentCount,
                 failedCount |-> loc[r].failedCount])
  /\ UNCHANGED << now, customers, events, segments, drafts, sends, req >>

\* ================================================= lib/smartGenerate/mock.ts
\* The regular expressions of the provider, as sequences of elements: a
\* literal, an optional literal (?:..)?, \s+, \s*, (\d+), \w+ and (\w+). In
\* each of them the element after a run starts with a character outside the
\* run's class, so taking the longest run is what the engine does.
Lit(s) == [k |-> "lit", s |-> s]
Opt(s) == [k |-> "opt", s |-> s]
Ws1 == [k |-> "ws1", s |-> << >>]
Ws0 == [k |-> "ws0", s |-> << >>]
Num == [k |-> "num", s |-> << >>]
Word == [k |-> "word", s |-> << >>]
WordCap == [k |-> "wordcap", s |-> << >>]

DigitChars == {Digits[i] : i \in DOMAIN Digits}
WordChars ==
  DigitChars \cup
  {"_", "a", "b", "c", "d", "e", "f", "g", "h", "i", "j", "k", "l", "m", "n", "o", "p",
   "q", "r", "s", "t", "u", "v", "w", "x", "y", "z"}

NoMatch == [ok |-> FALSE, cap |-> << >>]

LitAt(text, i, s) == i + Len(s) - 1 <= Len(text) /\ SubSeq(text, i, i + Len(s) - 1) = s

\* the index after the longest run of characters of the class from i on
RunEnd(text, i, class) ==
  CHOOSE j \in i..(Len(text) + 1) :
    /\ \A k \in i..(j - 1) : text[k] \in class
    /\ j = Len(text) + 1 \/ text[j] \notin class

\* the pattern matched at index i; cap is its capture group
RECURSIVE MatchAt(_, _, _)
MatchAt(text, i, pat) ==
  IF pat = << >> THEN [ok |-> TRUE, cap |-> << >>]
  ELSE LET e == Head(pat)
           j == RunEnd(text, i, CASE e.k = "num" -> DigitChars
                                  [] e.k \in {"word", "wordcap"} -> WordChars
                                  [] OTHER -> {" "})
       IN CASE e.k = "lit" ->
                 IF LitAt(text, i, e.s) THEN MatchAt(text, i + Len(e.s), Tail(pat))
                 ELSE NoMatch
            [] e.k = "opt" ->
                 IF LitAt(text, i, e.s) /\ MatchAt(text, i + Len(e.s), Tail(pat)).ok
                   THEN MatchAt(text, i + Len(e.s), Tail(pat))
                 ELSE MatchAt(text, i, Tail(pat))
            [] e.k = "ws0" -> MatchAt(text, j, Tail(pat))
            [] e.k \in {"ws1", "word"} ->
                 IF j > i THEN MatchAt(text, j, Tail(pat)) ELSE NoMatch
            [] e.k \in {"num", "wordcap"} ->
                 IF j > i /\ MatchAt(text, j, Tail(pat)).ok
                   THEN [ok |-> TRUE, cap |-> SubSeq(text, i, j - 1)]
                 ELSE NoMatch

\* String.prototype.match / RegExp.prototype.test of an alternation of
\* patterns: the leftmost match, of the first alternative that matches there
Match(text, alts) ==
  LET At(i) == {a \in DOMAIN alts : MatchAt(text, i, alts[a]).ok}
      hits == {i \in 1..(Len(text) + 1) : At(i) # {}}
  IN IF hits = {} THEN NoMatch
     ELSE LET i == CHOOSE h \in hits : \A g \in hits : h <= g
              a == CHOOSE b \in At(i) : \A c \in At(i) : b <= c
          IN MatchAt(text, i, alts[a])

\* String.prototype.includes
Includes(text, s) == \E i \in 1..(Len(text) + 1) : LitAt(text, i, s)

\* parseInt(digits, 10)
RECURSIVE ParseInt(_)
ParseInt(ds) ==
  IF ds = << >> THEN 0
  ELSE 10 * ParseInt(SubSeq(ds, 1, Len(ds) - 1))
       + ((CHOOSE n \in DOMAIN Digits : Digits[n] = ds[Len(ds)]) - 1)

\* the words of the provider's patterns and answers, as character sequences
Words ==
  [last |-> << "l", "a", "s", "t" >>,
   past |-> << "p", "a", "s", "t" >>,
   within |-> << "w", "i", "t", "h", "i", "n" >>,
   day |-> << "d", "a", "y" >>,
   s |-> << "s" >>,
   week |-> << "w", "e", "e", "k" >>,
   month |-> << "m", "o", "n", "t", "h" >>,
   at |-> << "a", "t" >>,
   least |-> << "l", "e", "a", "s", "t" >>,
   gte |-> << ">", "=" >>,
   more |-> << "m", "o", "r", "e" >>,
   than |-> << "t", "h", "a", "n" >>,
   add |-> << "a", "d", "d" >>,
   ed |-> << "e", "d" >>,
   to |-> << "t", "o" >>,
   cart |-> << "c", "a", "r", "t" >>,
   purchas |-> << "p", "u", "r", "c", "h", "a", "s" >>,
   sign |-> << "s", "i", "g", "n" >>,
   up |-> << "u", "p" >>,
   log |-> << "l", "o", "g" >>,
   ged |-> << "g", "e", "d" >>,
   in |-> << "i", "n" >>,
   page |-> << "p", "a", "g", "e" >>,
   view |-> << "v", "i", "e", "w" >>,
   check |-> << "c", "h", "e", "c", "k" >>,
   out |-> << "o", "u", "t" >>,
   pricing |-> << "p", "r", "i", "c", "i", "n", "g" >>,
   slashPricing |-> << "/", "p", "r", "i", "c", "i", "n", "g" >>,
   visited |-> << "v", "i", "s", "i", "t", "e", "d" >>,
   viewed |-> << "v", "i", "e", "w", "e", "d" >>,
   slash |-> << "/" >>,
   path |-> << "p", "a", "t", "h" >>,
   added_to_cart |-> << "a", "d", "d", "e", "d", "_", "t", "o", "_", "c", "a", "r", "t" >>,
   purchase |-> << "p", "u", "r", "c", "h", "a", "s", "e" >>,
   signup |-> << "s", "i", "g", "n", "u", "p" >>,
   login |-> << "l", "o", "g", "i", "n" >>,
   page_view |-> << "p", "a", "g", "e", "_", "v", "i", "e", "w" >>,
   checkout |-> << "c", "h", "e", "c", "k", "o", "u", "t" >>]

parseDays(text) ==
  LET match ==
        Match(text, << << Lit(Words.last), Ws1, Num, Ws0, Lit(Words.day), Opt(Words.s) >>,
                       << Lit(Words.past), Ws1, Num, Ws0, Lit(Words.day), Opt(Words.s) >>,
                       << Lit(Words.within), Ws1, Num, Ws0, Lit(Words.day), Opt(Words.s) >> >>)
      weekMatch ==
        Match(text, << << Lit(Words.last), Ws1, Num, Ws0, Lit(Words.week), Opt(Words.s) >>,
                       << Lit(Words.past), Ws1, Num, Ws0, Lit(Words.week), Opt(Words.s) >> >>)
  IN IF match.ok THEN ParseInt(match.cap)
     ELSE IF weekMatch.ok THEN ParseInt(weekMatch.cap) * 7
     ELSE IF Includes(text, Words.week) THEN 7
     ELSE IF Includes(text, Words.month) THEN 30
     ELSE 30

parseMinCount(text) ==
  LET atLeast == Match(text, << << Lit(Words.at), Ws1, Lit(Words.least), Ws1, Num >> >>)
      gte == Match(text, << << Lit(Words.gte), Ws0, Num >> >>)
      moreThan == Match(text, << << Lit(Words.more), Ws1, Lit(Words.than), Ws1, Num >> >>)
  IN IF atLeast.ok THEN ParseInt(atLeast.cap)
     ELSE IF gte.ok THEN ParseInt(gte.cap)
     ELSE IF moreThan.ok THEN ParseInt(moreThan.cap) + 1
     ELSE 0

mappings ==
  << << << Lit(Words.add), Opt(Words.ed), Ws1, Lit(Words.to), Ws1, Lit(Words.cart) >>,
        Words.added_to_cart >>,
     << << Lit(Words.purchas) >>, Words.purchase >>,
     << << Lit(Words.sign), Opt(Words.ed), Ws0, Lit(Words.up) >>, Words.signup >>,
     << << Lit(Words.log), Opt(Words.ged), Ws0, Lit(Words.in) >>, Words.login >>,
     << << Lit(Words.page), Ws0, Lit(Words.view) >>, Words.page_view >>,
     << << Lit(Words.check), Opt(Words.ed), Ws0, Lit(Words.out) >>, Words.checkout >> >>

parseEventType(text) ==
  LET found == {m \in DOMAIN mappings : Match(text, << mappings[m][1] >>).ok}
  IN IF found = {} THEN Words.page_view
     ELSE mappings[CHOOSE m \in found : \A n \in found : m <= n][2]

pricingMatch(lower) ==
  Match(lower, << << Lit(Words.pricing) >>,
                  << Lit(Words.slashPricing) >>,
                  << Lit(Words.visited), Ws1, Lit(Words.slash), Word >>,
                  << Lit(Words.viewed), Ws1, Lit(Words.slash), Word >> >>)

pathMatch(lower) == Match(lower, << << Lit(Words.slash), WordCap >> >>)

\* (mutant) the count phrase looked at before the pricing pattern
generateCountFirst(prompt) ==
  LET lower == ToLowerCase(prompt)
      days == parseDays(lower)
      minCount == parseMinCount(lower)
      eventType == parseEventType(lower)
      path == IF pathMatch(lower).ok THEN Words.slash \o pathMatch(lower).cap
              ELSE Words.slashPricing
  IN IF minCount > 0
       THEN [kind |-> "event_count_gte_in_last_days", eventType |-> eventType,
             days |-> days, minCount |-> minCount]
     ELSE IF pricingMatch(lower).ok
       THEN [kind |-> "event_property_equals", eventType |-> Words.page_view,
             path |-> Words.path, value |-> path, days |-> days]
     ELSE [kind |-> "event_type_in_last_days", eventType |-> eventType, days |-> days]

\* MockSmartGenerateProvider.generate
generate(prompt) ==
  LET lower == ToLowerCase(prompt)
      days == parseDays(lower)
      minCount == parseMinCount(lower)
      eventType == parseEventType(lower)
      path == IF pathMatch(lower).ok THEN Words.slash \o pathMatch(lower).cap
              ELSE Words.slashPricing
  IN IF pricingMatch(lower).ok
       THEN [kind |-> "event_property_equals", eventType |-> Words.page_view,
             path |-> Words.path, value |-> path, days |-> days]
     ELSE IF minCount > 0
       THEN [kind |-> "event_count_gte_in_last_days", eventType |-> eventType,
             days |-> days, minCount |-> minCount]
     ELSE [kind |-> "event_type_in_last_days", eventType |-> eventType, days |-> days]

\* ============================================ POST /api/smart-generate/segment
SmartSegmentPost(r, body) ==
  /\ Accept(r, [op |-> "smart-segment", body |-> body])
  /\ IF ~Truthy(body.prompt) \/ ~IsStr(body.prompt) \/ Trim(body.prompt.v) = << >>
       THEN Respond(r, [status |-> 400, error |-> << "Prompt is required" >>])
     ELSE Respond(r, [status |-> 200,
                      definition |-> DefinitionJson(generate(Trim(body.prompt.v)))])
  /\ UNCHANGED << now, db >>

\* ======================================================= inputs and behaviours
EmailA == << "a", "@", "x", ".", "y" >>
EmailARaw == << " ", "A", "@", "x", ".", "y" >>
EmailB == << "b", "@", "x", ".", "y" >>
TypePv == << "p", "v" >>
TypeBuy == << "b", "u", "y" >>
SkuW == << "W", "1" >>

EventBody(email, type, properties, occurredAt) ==
  [customerEmail |-> JUndef, email |-> email, occurredAt |-> occurredAt,
   properties |-> properties, type |-> type]

DefType(eventType, days) ==
  JObj([kind |-> JStr("event_type_in_last_days"), eventType |-> JStr(eventType),
        days |-> JNum(days)])

DefCount(eventType, days, minCount) ==
  JObj([kind |-> JStr("event_count_gte_in_last_days"), eventType |-> JStr(eventType),
        days |-> JNum(days), minCount |-> JNum(minCount)])

DefProperty(eventType, path, value, days) ==
  JObj([kind |-> JStr("event_property_equals"), eventType |-> JStr(eventType),
        path |-> JStr(path), value |-> JStr(value), days |-> JNum(days)])

NameOk == JStr(<< "s" >>)

PatchBodies == {JObj([status |-> JStr("approved")]), JObj([status |-> JStr("rejected")]),
                JObj([status |-> JStr("sent")])}

\* the steps of the handlers after their first one
Step(r) ==
  \/ EventsUpsertCustomer(r)
  \/ EventsFindExisting(r)
  \/ EventsCreate(r)
  \/ CampaignsFindSegment(r)
  \/ CampaignsCreate(r)
  \/ GenerateFindCampaign(r)
  \/ GenerateMatch(r)
  \/ GenerateFetchCustomers(r)
  \/ GenerateRecentEvents(r)
  \/ GenerateUpsert(r)
  \/ GenerateStatus(r)
  \/ PatchFind(r)
  \/ PatchUpdate(r)
  \/ SendFind(r)
  \/ SendUpsert(r)
  \/ SendStatus(r)

\* ---- SeqSpec: the whole application, requests served one after another
SeqEventBodies ==
  {EventBody(JStr(EmailA), JStr(TypePv), JObj((KeySku :> JStr(SkuW))), JUndef),
   EventBody(JStr(EmailB), JStr(TypePv), JUndef, JUndef)}

SeqDefinitions == {DefType(TypePv, 7), DefCount(TypePv, 7, 2), DefType(TypePv, 0)}

Quiet == \A q \in Slots : ~InFlight(q)

SeqStart(r) ==
  \/ \E body \in SeqEventBodies, header \in {NoKey, "k1"} : EventsStart(r, body, header)
  \/ \E d \in SeqDefinitions : SegmentsPost(r, [definition |-> d, name |-> NameOk])
  \/ \E sid \in SegmentIds : CampaignsStart(r, [name |-> NameOk, segmentId |-> sid])
  \/ \E id \in CampaignIds : GenerateStart(r, id)
  \/ \E id \in CampaignIds, did \in DraftIds, body \in PatchBodies :
       PatchStart(r, id, did, body)
  \/ \E id \in CampaignIds : SendStart(r, id)

SeqEdit ==
  \E id \in SegmentIds, d \in {DefType(TypePv, 7), DefType(TypeBuy, 7)} :
    SegmentEdit(id, validateSegmentDefinition(d).definition)

SeqNext ==
  \/ Quiet /\ \E r \in Slots : SeqStart(r)
  \/ Quiet /\ SeqEdit
  \/ \E r \in Slots : Step(r)
  \/ Quiet /\ Tick

SeqSpec == Init /\ [][SeqNext]_vars

\* ---- Spec: the whole application, requests interleaved at their database calls
Next ==
  \/ \E r \in Slots : SeqStart(r)
  \/ SeqEdit
  \/ \E r \in Slots : Step(r)
  \/ Tick

Spec == Init /\ [][Next]_vars

\* ---- IngestSpec: concurrent POST /api/events requests
IngestEventBodies ==
  {EventBody(JStr(e), JStr(TypePv), JUndef, JUndef) : e \in {EmailA, EmailARaw, EmailB}}

IngestHeaders == {NoKey, "", "k1"}

IngestStart(r) ==
  \E body \in IngestEventBodies, header \in IngestHeaders : EventsStart(r, body, header)

IngestStep(r) ==
  \/ EventsUpsertCustomer(r)
  \/ EventsFindExisting(r)
  \/ EventsCreate(r)

IngestNext ==
  \/ \E r \in Slots : IngestStart(r)
  \/ \E r \in Slots : IngestStep(r)

IngestSpec == Init /\ [][IngestNext]_vars

\* ---- WorkflowSpec: concurrent generate-drafts, PATCH and send requests on a
\* campaign whose segment matches two customers
WorkflowDefinition == validateSegmentDefinition(DefType(TypePv, 7)).definition

WorkflowInit ==
  /\ now = 0
  /\ customers = {[id |-> 1, email |-> EmailA], [id |-> 2, email |-> EmailB]}
  /\ events = {[id |-> 1, customerId |-> 1, type |-> TypePv,
                properties |-> JObj((KeySku :> JStr(SkuW))), occurredAt |-> 0,
                idempotencyKey |-> NoKey],
               [id |-> 2, customerId |-> 2, type |-> TypePv, properties |-> JObj(<< >>),
                occurredAt |-> 0, idempotencyKey |-> NoKey]}
  /\ segments = {[id |-> 1, definition |-> DefinitionJson(WorkflowDefinition)]}
  /\ campaigns = {[id |-> c, segmentId |-> 1,
                   segmentSnapshot |-> DefinitionJson(WorkflowDefinition),
                   status |-> "draft"] : c \in CampaignIds}
  /\ drafts = {}
  /\ sends = {}
  /\ req = [r \in Slots |-> NoReq]
  /\ pc = [r \in Slots |-> "idle"]
  /\ loc = [r \in Slots |-> NoLoc]
  /\ resp = [r \in Slots |-> NoResp]

WorkflowStart(r) ==
  \/ \E id \in CampaignIds : GenerateStart(r, id)
  \/ \E id \in CampaignIds, did \in DraftIds :
       PatchStart(r, id, did, JObj([status |-> JStr("approved")]))
  \/ \E id \in CampaignIds : PatchStart(r, id, 1, JObj([status |-> JStr("rejected")]))
  \/ \E id \in CampaignIds : SendStart(r, id)

WorkflowStep(r) ==
  \/ GenerateFindCampaign(r)
  \/ GenerateMatch(r)
  \/ GenerateFetchCustomers(r)
  \/ GenerateRecentEvents(r)
  \/ GenerateUpsert(r)
  \/ GenerateStatus(r)
  \/ PatchFind(r)
  \/ PatchUpdate(r)
  \/ SendFind(r)
  \/ SendUpsert(r)
  \/ SendStatus(r)

WorkflowNext ==
  \/ \E r \in Slots : WorkflowStart(r)
  \/ \E r \in Slots : WorkflowStep(r)

WorkflowSpec == WorkflowInit /\ [][WorkflowNext]_vars

\* ---- BigSpec: generate-drafts on a segment of about PREVIEW_LIMIT customers
BigEmail(k) == << Digits[(k \div 10) + 1], Digits[(k % 10) + 1], "@", "x", ".", "y" >>

BigInit ==
  /\ now = 0
  /\ \E n \in (PREVIEW_LIMIT - 1)..(PREVIEW_LIMIT + BigExtra) :
       /\ customers = {[id |-> k, email |-> BigEmail(k)] : k \in 1..n}
       /\ events = {[id |-> k, customerId |-> k, type |-> TypePv, properties |-> JObj(<< >>),
                     occurredAt |-> 0, idempotencyKey |-> NoKey] : k \in 1..n}
  /\ segments = {[id |-> 1, definition |-> DefinitionJson(WorkflowDefinition)]}
  /\ campaigns = {[id |-> 1, segmentId |-> 1,
                   segmentSnapshot |-> DefinitionJson(WorkflowDefinition),
                   status |-> "draft"]}
  /\ drafts = {}
  /\ sends = {}
  /\ req = [r \in Slots |-> NoReq]
  /\ pc = [r \in Slots |-> "idle"]
  /\ loc = [r \in Slots |-> NoLoc]
  /\ resp = [r \in Slots |-> NoResp]

BigStep(r) ==
  \/ GenerateFindCampaign(r)
  \/ GenerateMatch(r)
  \/ GenerateFetchCustomers(r)
  \/ GenerateRecentEvents(r)
  \/ GenerateUpsert(r)
  \/ GenerateStatus(r)

BigNext ==
  \/ Quiet /\ \E r \in Slots : GenerateStart(r, 1)
  \/ \E r \in Slots : BigStep(r)

BigSpec == BigInit /\ [][BigNext]_vars

\* ---- RegenSpec: events arrive and time passes between generate-drafts runs,
\* one request at a time, on a campaign whose segment looks back 45 days
SkuW2Raw == << " ", "W", "2" >>
SkuBlank == << " " >>

\* an occurredAt that many days before the request
DaysAgo(n) == [t |-> "date", v |-> n]

RegenDefinition == validateSegmentDefinition(DefType(TypePv, 45)).definition

RegenEventBodies ==
  {EventBody(JStr(EmailA), JStr(TypePv), JUndef, JUndef),
   EventBody(JStr(EmailA), JStr(TypePv), JObj((KeySku :> JStr(SkuW))), JUndef),
   EventBody(JStr(EmailA), JStr(TypePv), JObj((KeySku :> JStr(SkuBlank))), JUndef),
   EventBody(JStr(EmailA), JStr(TypeBuy), JObj((KeySku :> JStr(SkuW2Raw))), JUndef),
   EventBody(JStr(EmailB), JStr(TypePv), JObj((KeySku :> JStr(SkuW))), DaysAgo(THIRTY_DAYS))}

RegenInit ==
  /\ now = 0
  /\ customers = {}
  /\ events = {}
  /\ segments = {[id |-> 1, definition |-> DefinitionJson(RegenDefinition)]}
  /\ campaigns = {[id |-> 1, segmentId |-> 1,
                   segmentSnapshot |-> DefinitionJson(RegenDefinition),
                   status |-> "draft"]}
  /\ drafts = {}
  /\ sends = {}
  /\ req = [r \in Slots |-> NoReq]
  /\ pc = [r \in Slots |-> "idle"]
  /\ loc = [r \in Slots |-> NoLoc]
  /\ resp = [r \in Slots |-> NoResp]

RegenStep(r) ==
  \/ EventsUpsertCustomer(r)
  \/ EventsCreate(r)
  \/ GenerateFindCampaign(r)
  \/ GenerateMatch(r)
  \/ GenerateFetchCustomers(r)
  \/ GenerateRecentEvents(r)
  \/ GenerateUpsert(r)
  \/ GenerateStatus(r)

RegenNext ==
  \/ Quiet /\ \E r \in Slots, body \in RegenEventBodies : EventsStart(r, body, NoKey)
  \/ Quiet /\ \E r \in Slots : GenerateStart(r, 1)
  \/ \E r \in Slots : RegenStep(r)
  \/ Quiet /\ Tick

RegenSpec == RegenInit /\ [][RegenNext]_vars

\* ---- SnapshotSpec: concurrent generate-drafts on a campaign whose Json
\* column segmentSnapshot holds any of these values
SnapshotValues ==
  {DefType(TypePv, 7),
   DefType(TypePv, 0),
   DefType(<< " " >>, 7),
   JObj([kind |-> JStr("event_seen"), eventType |-> JStr(TypePv), days |-> JNum(7)]),
   JObj([eventType |-> JStr(TypePv), days |-> JNum(7)]),
   JNull,
   JArr}

\* the draft an earlier run wrote for the first customer
SnapshotDraft ==
  LET copy == smartGenerateDraft(EmailA, JStr(TypePv), JStr(SkuW))
  IN [id |-> 1, campaignId |-> 1, customerId |-> 1, subject |-> copy.subject,
      body |-> copy.body, recommendedSku |-> JStr(SkuW), status |-> "generated"]

SnapshotInit ==
  /\ now = 0
  /\ customers = {[id |-> 1, email |-> EmailA], [id |-> 2, email |-> EmailB]}
  /\ events = {[id |-> 1, customerId |-> 1, type |-> TypePv,
                properties |-> JObj((KeySku :> JStr(SkuW))), occurredAt |-> 0,
                idempotencyKey |-> NoKey],
               [id |-> 2, customerId |-> 2, type |-> TypePv, properties |-> JObj(<< >>),
                occurredAt |-> 0, idempotencyKey |-> NoKey]}
  /\ segments = {[id |-> 1, definition |-> DefinitionJson(WorkflowDefinition)]}
  /\ \E snapshot \in SnapshotValues, status \in {"draft", "drafted"} :
       /\ campaigns = {[id |-> 1, segmentId |-> 1, segmentSnapshot |-> snapshot,
                        status |-> status]}
       /\ drafts = IF status = "drafted" THEN {SnapshotDraft} ELSE {}
  /\ sends = {}
  /\ req = [r \in Slots |-> NoReq]
  /\ pc = [r \in Slots |-> "idle"]
  /\ loc = [r \in Slots |-> NoLoc]
  /\ resp = [r \in Slots |-> NoResp]

SnapshotNext ==
  \/ \E r \in Slots : GenerateStart(r, 1)
  \/ \E r \in Slots : BigStep(r)

SnapshotSpec == SnapshotInit /\ [][SnapshotNext]_vars

\* ---- BigPreviewSpec: previews on a store of about PREVIEW_LIMIT customers
\* with a page view, whose ids run against the order of their emails; the
\* first of them has two page views, and one more customer, first in email
\* order, has none
PreviewStep(r) ==
  \/ PreviewFindSegment(r)
  \/ PreviewMatch(r)
  \/ PreviewFetchCustomers(r)

BigPreviewInit ==
  /\ now = 0
  /\ \E n \in (PREVIEW_LIMIT - 1)..(PREVIEW_LIMIT + BigExtra) :
       /\ customers = {[id |-> k, email |-> BigEmail(n + 1 - k)] : k \in 1..n}
                         \cup {[id |-> n + 1, email |-> BigEmail(0)]}
       /\ events = {[id |-> k, customerId |-> k, type |-> TypePv, properties |-> JObj(<< >>),
                     occurredAt |-> 0, idempotencyKey |-> NoKey] : k \in 1..n}
                      \cup {[id |-> n + 1, customerId |-> n + 1, type |-> TypeBuy,
                              properties |-> JObj(<< >>), occurredAt |-> 0,
                              idempotencyKey |-> NoKey],
                             [id |-> n + 2, customerId |-> 1, type |-> TypePv,
                              properties |-> JObj(<< >>), occurredAt |-> 0,
                              idempotencyKey |-> NoKey]}
  /\ segments = {[id |-> 1, definition |-> DefType(TypePv, 7)],
                 [id |-> 2, definition |-> DefCount(TypePv, 7, 2)]}
  /\ campaigns = {}
  /\ drafts = {}
  /\ sends = {}
  /\ req = [r \in Slots |-> NoReq]
  /\ pc = [r \in Slots |-> "idle"]
  /\ loc = [r \in Slots |-> NoLoc]
  /\ resp = [r \in Slots |-> NoResp]

BigPreviewNext ==
  \/ \E r \in Slots, id \in 1..3 : PreviewStart(r, id)
  \/ \E r \in Slots : PreviewStep(r)

BigPreviewSpec == BigPreviewInit /\ [][BigPreviewNext]_vars

\* ---- PreviewSpec: previews, one at a time, of segments over any store made
\* of these events of two customers, while days pass
StoreEvents ==
  {[id |-> 1, customerId |-> 1, type |-> TypePv, occurredAt |-> 0],
   [id |-> 2, customerId |-> 1, type |-> TypePv, occurredAt |-> -3],
   [id |-> 3, customerId |-> 1, type |-> TypePv, occurredAt |-> -7],
   [id |-> 4, customerId |-> 1, type |-> TypePv, occurredAt |-> -8],
   [id |-> 5, customerId |-> 1, type |-> TypeBuy, occurredAt |-> 0],
   [id |-> 6, customerId |-> 2, type |-> TypePv, occurredAt |-> 0],
   [id |-> 7, customerId |-> 2, type |-> TypePv, occurredAt |-> -7],
   [id |-> 8, customerId |-> 2, type |-> TypePv, occurredAt |-> -8],
   [id |-> 9, customerId |-> 2, type |-> TypeBuy, occurredAt |-> -1]}

PreviewInit ==
  /\ now = 0
  /\ customers = {[id |-> 1, email |-> EmailA], [id |-> 2, email |-> EmailB]}
  /\ \E store \in SUBSET StoreEvents :
       events = {[id |-> e.id, customerId |-> e.customerId, type |-> e.type,
                  properties |-> JObj(<< >>), occurredAt |-> e.occurredAt,
                  idempotencyKey |-> NoKey] : e \in store}
  /\ segments = {[id |-> 1, definition |-> DefType(TypePv, 7)],
                 [id |-> 2, definition |-> DefCount(TypePv, 7, 3)],
                 [id |-> 3, definition |-> DefCount(TypePv, 7, 1)],
                 [id |-> 4, definition |-> DefType(TypeBuy, 1)]}
  /\ campaigns = {}
  /\ drafts = {}
  /\ sends = {}
  /\ req = [r \in Slots |-> NoReq]
  /\ pc = [r \in Slots |-> "idle"]
  /\ loc = [r \in Slots |-> NoLoc]
  /\ resp = [r \in Slots |-> NoResp]

PreviewNext ==
  \/ Quiet /\ \E r \in Slots, id \in 1..5 : PreviewStart(r, id)
  \/ \E r \in Slots : PreviewStep(r)
  \/ Quiet /\ Tick

PreviewSpec == PreviewInit /\ [][PreviewNext]_vars

\* ---- ValidateSpec: POST /api/segments with definitions of every shape
\* an object with the fields that are given (JUndef: the field is missing)
ObjectOf(fields) ==
  JObj([k \in {x \in DOMAIN fields : fields[x] # JUndef} |-> fields[k]])

KindValues == {JStr(k) : k \in KnownKinds} \cup {JStr("event_seen"), JNum(1), JUndef}
EventTypeValues == {JStr(TypePv), JStr(<< " ", "p", "v" >>), JStr(<< " " >>), JStr(<< >>),
                    JNum(1), JUndef}
DaysValues == {JNum(7), JNum(1), JNum(0), JNum(-1), JFrac(1), JStr(<< "7" >>), JUndef}
PathValues == {JStr(KeySku), JStr(<< " ", "s", "k", "u", " " >>), JStr(<< " " >>), JNum(1),
               JUndef}
ValueValues == {JStr(SkuW), JStr(<< " ", "W", "1" >>), JStr(<< >>), JNum(1), JUndef}
MinCountValues == {JNum(2), JNum(0), JFrac(1), JStr(<< "2" >>), JUndef}

\* every kind with every eventType and days, and with every value of the
\* fields that only that kind reads
ValidateInputs ==
  {ObjectOf([kind |-> k, eventType |-> e, days |-> d]) :
     k \in KindValues, e \in EventTypeValues, d \in DaysValues}
  \cup {ObjectOf([kind |-> JStr("event_property_equals"), eventType |-> e, days |-> d,
                   path |-> p, value |-> v]) :
          e \in {JStr(TypePv), JStr(<< " ", "p", "v" >>), JStr(<< " " >>)},
          d \in {JNum(7), JNum(0)}, p \in PathValues, v \in ValueValues}
  \cup {ObjectOf([kind |-> JStr("event_count_gte_in_last_days"), eventType |-> e,
                   days |-> d, minCount |-> m]) :
          e \in {JStr(TypePv), JStr(<< " ", "p", "v" >>), JStr(<< " " >>)},
          d \in {JNum(7), JNum(0)}, m \in MinCountValues}
  \cup {JNull, JArr, JStr(TypePv), JNum(1)}

ValidateNext ==
  \E r \in Slots, d \in ValidateInputs : SegmentsPost(r, [definition |-> d, name |-> NameOk])

ValidateSpec == Init /\ [][ValidateNext]_vars

\* ---- SkuSpec: generate-drafts for a customer with one to three page views
\* on successive days, whose properties hold any of these values
PropertiesValues ==
  {JNull,
   JObj(<< >>),
   JObj((KeySku :> JNum(1))),
   JObj((KeySku :> JStr(<< >>))),
   JObj((KeySku :> JStr(SkuBlank))),
   JObj((KeySku :> JStr(SkuW))),
   JObj((KeySku :> JStr(SkuW2Raw)))}

SkuInit ==
  /\ now = 0
  /\ customers = {[id |-> 1, email |-> EmailA]}
  /\ \E n \in 1..3 : \E props \in [1..n -> PropertiesValues] :
       events = {[id |-> i, customerId |-> 1, type |-> TypePv, properties |-> props[i],
                  occurredAt |-> 1 - i, idempotencyKey |-> NoKey] : i \in 1..n}
  /\ segments = {[id |-> 1, definition |-> DefinitionJson(WorkflowDefinition)]}
  /\ campaigns = {[id |-> 1, segmentId |-> 1,
                   segmentSnapshot |-> DefinitionJson(WorkflowDefinition),
                   status |-> "draft"]}
  /\ drafts = {}
  /\ sends = {}
  /\ req = [r \in Slots |-> NoReq]
  /\ pc = [r \in Slots |-> "idle"]
  /\ loc = [r \in Slots |-> NoLoc]
  /\ resp = [r \in Slots |-> NoResp]

SkuSpec == SkuInit /\ [][BigNext]_vars

\* ---- PromptSpec: POST /api/smart-generate/segment with prompts made of
\* one to MaxPhrases of these phrases, and with bodies without a usable prompt
Phrases ==
  {<< "U", "s", "e", "r", "s", " ", "w", "h", "o" >>,
   << "v", "i", "s", "i", "t", "e", "d", " ", "/", "d", "o", "c", "s" >>,
   << "P", "r", "i", "c", "i", "n", "g", " ", "p", "a", "g", "e" >>,
   << "/", "c", "a", "r", "t" >>,
   << "p", "u", "r", "c", "h", "a", "s", "e", "d" >>,
   << "s", "i", "g", "n", "e", "d", " ", "u", "p" >>,
   << "a", "t", " ", "l", "e", "a", "s", "t", " ", "3" >>,
   << "a", "t", " ", "l", "e", "a", "s", "t", " ", "0" >>,
   << "m", "o", "r", "e", " ", "t", "h", "a", "n", " ", "2" >>,
   << ">", "=", "2" >>,
   << "l", "a", "s", "t", " ", "7", " ", "d", "a", "y", "s" >>,
   << "l", "a", "s", "t", " ", "0", " ", "d", "a", "y", "s" >>,
   << "p", "a", "s", "t", " ", "2", " ", "w", "e", "e", "k", "s" >>,
   << "t", "h", "i", "s", " ", "m", "o", "n", "t", "h" >>}

RECURSIVE JoinPhrases(_)
JoinPhrases(ps) ==
  IF Len(ps) = 1 THEN ps[1] ELSE ps[1] \o << " " >> \o JoinPhrases(Tail(ps))

Prompts == {JoinPhrases(ps) : ps \in UNION {[1..n -> Phrases] : n \in 1..MaxPhrases}}

PromptBodies ==
  {[prompt |-> JStr(p)] : p \in Prompts}
  \cup {[prompt |-> j] : j \in {JUndef, JNull, JNum(1), JStr(<< >>), JStr(<< " " >>),
                               JStr(<< " ", "p", "u", "r", "c", "h", "a", "s", "e", " " >>)}}

\* the handler reads and writes nothing shared, so every behaviour of it is
\* that of one request
PromptNext ==
  \E r \in Slots, body \in PromptBodies :
    /\ \A q \in Slots : pc[q] = "idle"
    /\ SmartSegmentPost(r, body)

PromptSpec == Init /\ [][PromptNext]_vars

\* ---- ApiSpec: a store filled through the routes only (events, a segment
\* of any of these definitions, a campaign), then previewed and drafted
ApiDefinitions ==
  {DefType(TypePv, 7),
   DefType(<< " ", "p", "v", " " >>, 7),
   DefCount(TypePv, 7, 1),
   DefProperty(TypePv, << " ", "s", "k", "u" >>, SkuW, 7),
   DefProperty(TypePv, KeySku, << " ", "W", "1" >>, 7),
   DefType(TypePv, 0),
   DefType(<< " " >>, 7),
   DefCount(TypePv, 7, 0),
   ObjectOf([kind |-> JStr("event_seen"), eventType |-> JStr(TypePv), days |-> JNum(7)]),
   JNull}

ApiStart(r) ==
  \/ \E header \in {NoKey, "k1"} :
       EventsStart(r, EventBody(JStr(EmailA), JStr(TypePv), JObj((KeySku :> JStr(SkuW))),
                                JUndef), header)
  \/ \E d \in ApiDefinitions : SegmentsPost(r, [definition |-> d, name |-> NameOk])
  \/ \E sid \in SegmentIds : CampaignsStart(r, [name |-> NameOk, segmentId |-> sid])
  \/ \E sid \in SegmentIds : PreviewStart(r, sid)
  \/ \E id \in CampaignIds : GenerateStart(r, id)

ApiStep(r) ==
  \/ EventsUpsertCustomer(r)
  \/ EventsFindExisting(r)
  \/ EventsCreate(r)
  \/ CampaignsFindSegment(r)
  \/ CampaignsCreate(r)
  \/ PreviewStep(r)
  \/ BigStep(r)

ApiNext ==
  \/ Quiet /\ \E r \in Slots : ApiStart(r)
  \/ \E r \in Slots : ApiStep(r)

ApiSpec == Init /\ [][ApiNext]_vars

\* ---- FrameSpec: two campaigns on one segment; the second customer's page
\* view leaves the window when the clock advances
FrameCampaigns == {1, 2}

FrameInit ==
  /\ now = 0
  /\ customers = {[id |-> 1, email |-> EmailA], [id |-> 2, email |-> EmailB]}
  /\ events = {[id |-> 1, customerId |-> 1, type |-> TypePv,
                properties |-> JObj((KeySku :> JStr(SkuW))), occurredAt |-> 0,
                idempotencyKey |-> NoKey],
               [id |-> 2, customerId |-> 2, type |-> TypePv, properties |-> JObj(<< >>),
                occurredAt |-> -7, idempotencyKey |-> NoKey]}
  /\ segments = {[id |-> 1, definition |-> DefinitionJson(WorkflowDefinition)]}
  /\ campaigns = {[id |-> c, segmentId |-> 1,
                   segmentSnapshot |-> DefinitionJson(WorkflowDefinition),
                   status |-> "draft"] : c \in FrameCampaigns}
  /\ drafts = {}
  /\ sends = {}
  /\ req = [r \in Slots |-> NoReq]
  /\ pc = [r \in Slots |-> "idle"]
  /\ loc = [r \in Slots |-> NoLoc]
  /\ resp = [r \in Slots |-> NoResp]

FrameStart(r) ==
  \/ \E id \in FrameCampaigns : GenerateStart(r, id)
  \/ \E id \in FrameCampaigns, did \in DraftIds, status \in ALLOWED_STATUSES :
       PatchStart(r, id, did, JObj([status |-> JStr(status)]))
  \/ \E id \in FrameCampaigns : SendStart(r, id)

FrameNext ==
  \/ Quiet /\ \E r \in Slots : FrameStart(r)
  \/ \E r \in Slots : WorkflowStep(r)
  \/ Quiet /\ Tick

FrameSpec == FrameInit /\ [][FrameNext]_vars

\* ===================================================================== claims
IsDone(r, op) == pc[r] = "done" /\ req[r].op = op

EventPcs == {"ev_upsert", "ev_find", "ev_create"}

\* the stored events that carry the customer and the key of request r
StoredFor(r) ==
  {e \in events :
     /\ e.idempotencyKey = loc[r].data.idempotencyKey
     /\ \E c \in customers : c.id = e.customerId /\ c.email = loc[r].data.email}

\* C1: served one after another, a request whose non-empty key an already
\* stored event of the same customer carries stores nothing and answers
\* created:false with the id of that event, which stays the only one stored
\* for that (customer, key).
C1_IdempotentIngest ==
  [][\A r \in Slots :
       (/\ pc[r] \in EventPcs
        /\ loc[r].data.idempotencyKey # NoKey
        /\ StoredFor(r) # {})
       => /\ events' = events
          /\ Cardinality(StoredFor(r)) = 1
          /\ pc'[r] = "done" =>
               \E e \in StoredFor(r) :
                 resp'[r] = [status |-> 200, created |-> FALSE, eventId |-> e.id,
                             customerId |-> e.customerId]]_vars

C1_Witness ==
  \E r \in Slots :
    /\ IsDone(r, "events")
    /\ req[r].header = "k1"
    /\ resp[r].status = 200
    /\ resp[r].created = FALSE
    /\ Cardinality({e \in events : /\ e.customerId = resp[r].customerId
                                    /\ e.idempotencyKey = "k1"}) = 1
    /\ \E e \in events : e.id = resp[r].eventId /\ e.idempotencyKey = "k1"

\* C2: under any interleaving of concurrent ingest requests the Event table
\* never holds two rows with the same customer and the same non-null key.
C2_UniqueEventKey ==
  \A e1, e2 \in events :
    (/\ e1.customerId = e2.customerId
     /\ e1.idempotencyKey = e2.idempotencyKey
     /\ e1.idempotencyKey # NoKey) => e1 = e2

\* two requests both passed the lookup; the index refused the second create
C2_Witness ==
  \E r \in Slots :
    /\ IsDone(r, "events")
    /\ resp[r].status = 500
    /\ \E e \in events : e.idempotencyKey = req[r].header

\* C3: no ingest request, concurrent duplicates included, ends in an
\* internal error.
C3_NoInternalError ==
  \A r \in Slots : IsDone(r, "events") => resp[r].status # 500

\* C4: a campaign's status only moves forward along
\* draft -> drafted -> sending -> sent/failed.
StatusRank(status) ==
  CASE status = "draft" -> 0
    [] status = "drafted" -> 1
    [] status = "sending" -> 2
    [] status \in {"sent", "failed"} -> 3

C4_StatusForward ==
  [][\A c \in campaigns : \A c2 \in campaigns' :
       c2.id = c.id => StatusRank(c.status) <= StatusRank(c2.status)]_vars

\* C5: a draft is created as generated, and the only changes of a draft's
\* status are generated -> approved and generated -> rejected.
C5_DraftStatusTerminal ==
  [][\A d2 \in drafts' :
       IF \E d \in drafts : d.id = d2.id
         THEN \A d \in drafts :
                d.id = d2.id =>
                  \/ d2.status = d.status
                  \/ d.status = "generated" /\ d2.status \in {"approved", "rejected"}
         ELSE d2.status = "generated"]_vars

\* an approved draft that went through a send and a later generate-drafts run
C5_Witness ==
  \E d \in drafts, c \in campaigns, x \in sends :
    /\ d.status = "approved"
    /\ c.id = d.campaignId
    /\ c.status = "drafted"
    /\ x.campaignId = c.id
    /\ x.customerId = d.customerId

\* C6: a PATCH with a valid status on a draft that is no longer generated
\* is answered 409 and leaves the drafts as they are.
C6_PatchConflict ==
  [][\A r \in Slots :
       (/\ pc[r] \in {"patch_find", "patch_update"}
        /\ \E d \in drafts : /\ d.id = req[r].draftId
                              /\ d.campaignId = req[r].campaignId
                              /\ d.status # "generated")
       => /\ drafts' = drafts
          /\ pc'[r] = "done" => resp'[r].status = 409]_vars

C6_Witness ==
  \E r \in Slots :
    /\ IsDone(r, "patch")
    /\ resp[r].status = 409
    /\ req[r].body = JObj([status |-> JStr("approved")])
    /\ \E d \in drafts : d.id = req[r].draftId /\ d.status = "approved"

\* C7: there is at most one EmailDraft per (campaign, customer) pair.
C7_OneDraftPerPair ==
  \A d1, d2 \in drafts :
    (d1.campaignId = d2.campaignId /\ d1.customerId = d2.customerId) => d1 = d2

\* two generate-drafts requests of the same campaign both went through
C7_Witness ==
  \E r1, r2 \in Slots :
    /\ r1 # r2
    /\ IsDone(r1, "generate") /\ IsDone(r2, "generate")
    /\ req[r1].id = req[r2].id
    /\ resp[r1].status = 200 /\ resp[r1].draftedCount = 2
    /\ resp[r2].status = 200 /\ resp[r2].draftedCount = 2
    /\ Cardinality({d \in drafts : d.campaignId = req[r1].id}) = 2

\* C8: after a successful generate-drafts every customer matching the
\* snapshot has a draft and draftedCount is the number of matching customers.
C8_AllMatchingDrafted ==
  \A r \in Slots :
    (IsDone(r, "generate") /\ resp[r].status = 200) =>
      LET campaign == Row(campaigns, req[r].id)
          matching == MatchingIds(validateSegmentDefinition(campaign.segmentSnapshot).definition)
      IN /\ resp[r].draftedCount = Cardinality(matching)
         /\ \A id \in matching :
              \E d \in drafts : d.campaignId = campaign.id /\ d.customerId = id

\* C9: generate-drafts answers the number of drafts it upserted and sets the
\* campaign to drafted exactly when that number is positive; with no match
\* it answers 0 and writes neither a draft nor the campaign.
GenerateReadPcs == {"gen_find", "gen_match", "gen_fetch", "gen_events"}

C9_DraftedCount ==
  [][\A r \in Slots :
       /\ pc[r] \in GenerateReadPcs => drafts' = drafts /\ campaigns' = campaigns
       /\ pc[r] = "gen_upsert" => campaigns' = campaigns
       /\ (pc[r] \in GenerateReadPcs /\ pc'[r] = "done" /\ resp'[r].status = 200)
            => resp'[r].draftedCount = 0
       /\ (pc[r] = "gen_status" /\ pc'[r] = "done")
            => /\ resp'[r].status = 200
               /\ resp'[r].draftedCount > 0
               /\ resp'[r].draftedCount = Len(loc[r].preview)
               /\ \A k \in DOMAIN loc[r].preview :
                    \E d \in drafts : /\ d.campaignId = req[r].id
                                      /\ d.customerId = loc[r].preview[k].id
               /\ Row(campaigns', req[r].id).status = "drafted"]_vars

C9_Witness ==
  \E r \in Slots :
    /\ IsDone(r, "generate")
    /\ resp[r].status = 200
    /\ resp[r].draftedCount = 0
    /\ Row(campaigns, req[r].id).status = "draft"
    /\ drafts = {}
    /\ events # {}

\* C10: a campaign's segmentSnapshot is the segment's definition at the
\* moment of creation, no operation changes it afterwards, and
\* generate-drafts evaluates it rather than the segment's current definition.
C10_SnapshotFrozen ==
  [][/\ \A c \in campaigns :
          \E c2 \in campaigns' : c2.id = c.id /\ c2.segmentSnapshot = c.segmentSnapshot
     /\ \A c2 \in campaigns' :
          (~\E c \in campaigns : c.id = c2.id)
            => c2.segmentSnapshot = Row(segments, c2.segmentId).definition
     /\ \A r \in Slots :
          pc[r] = "gen_match" =>
            loc[r].definition =
              validateSegmentDefinition(Row(campaigns, req[r].id).segmentSnapshot).definition]_vars

\* the segment was edited, and a later generate-drafts still matched by the snapshot
C10_Witness ==
  \E r \in Slots, c \in campaigns :
    /\ pc[r] = "gen_fetch"
    /\ c.id = req[r].id
    /\ loc[r].customerIds # {}
    /\ Row(segments, c.segmentId).definition # c.segmentSnapshot
    /\ MatchingIds(validateSegmentDefinition(Row(segments, c.segmentId).definition).definition) = {}

\* C11: when a generate-drafts run finishes, the draft of every customer it
\* processed holds the first non-empty trimmed sku among that customer's
\* events of the last 30 days taken newest first (null if none) and the
\* subject and body generated from that sku and the newest event's type,
\* whatever the draft held before.
FirstSku(evs) ==
  LET hits == {i \in DOMAIN evs :
                 LET sku == IF evs[i].properties.t = "object"
                              THEN Field(evs[i].properties.v, KeySku) ELSE JUndef
                 IN IsStr(sku) /\ Trim(sku.v) # << >>}
  IN IF hits = {} THEN JNull
     ELSE LET i == CHOOSE h \in hits : \A j \in hits : h <= j
          IN JStr(Trim(evs[i].properties.v[KeySku].v))

NewestType(evs) == IF Len(evs) = 0 THEN JUndef ELSE JStr(evs[1].type)

C11_LatestContext ==
  [][\A r \in Slots :
       (pc[r] = "gen_status" /\ pc'[r] = "done") =>
         \A k \in DOMAIN loc[r].preview :
           LET customer == loc[r].preview[k]
               recent == {e \in events : /\ e.customerId = customer.id
                                         /\ e.occurredAt >= now - THIRTY_DAYS}
           IN \E d \in drafts' :
                /\ d.campaignId = req[r].id
                /\ d.customerId = customer.id
                /\ \E evs \in OrderedDesc(recent) :
                     LET copy == smartGenerateDraft(customer.email, NewestType(evs),
                                                    FirstSku(evs))
                     IN /\ d.recommendedSku = FirstSku(evs)
                        /\ d.subject = copy.subject
                        /\ d.body = copy.body]_vars

\* b's draft is older than a's, so an earlier run wrote it while b's event with
\* a sku was inside the 30 days; the run that just finished found it outside
C11_Witness ==
  \E r \in Slots, da, dbb \in drafts, e \in events :
    /\ IsDone(r, "generate")
    /\ resp[r].status = 200
    /\ resp[r].draftedCount = 2
    /\ da.customerId # dbb.customerId
    /\ dbb.id < da.id
    /\ e.customerId = dbb.customerId
    /\ Field(e.properties.v, KeySku) = JStr(SkuW)
    /\ e.occurredAt < now - THIRTY_DAYS
    /\ dbb.recommendedSku = JNull
    /\ dbb.subject = << "We have something special for you" >>

\* C12: a generate-drafts request whose campaign's stored snapshot fails
\* validation ends at once with 400, before any evaluation, and writes no
\* draft and no campaign.
SnapshotInvalid(id) ==
  \E c \in campaigns :
    c.id = id /\ ~validateSegmentDefinition(c.segmentSnapshot).valid

C12_InvalidSnapshotAborts ==
  [][\A r \in Slots :
       (/\ req[r].op = "generate"
        /\ InFlight(r)
        /\ SnapshotInvalid(req[r].id))
       => /\ pc[r] = "gen_find"
          /\ drafts' = drafts
          /\ campaigns' = campaigns
          /\ pc'[r] # pc[r] => pc'[r] = "done" /\ resp'[r].status = 400]_vars

\* the request was refused and the draft of an earlier run is as it was
C12_Witness ==
  \E r \in Slots :
    /\ IsDone(r, "generate")
    /\ resp[r].status = 400
    /\ SnapshotInvalid(req[r].id)
    /\ drafts = {SnapshotDraft}
    /\ Row(campaigns, req[r].id).status = "drafted"

\* C13: there is at most one Send per (campaign, customer) pair, however
\* often and however concurrently the send request is repeated.
C13_OneSendPerPair ==
  \A x1, x2 \in sends :
    (x1.campaignId = x2.campaignId /\ x1.customerId = x2.customerId) => x1 = x2

\* two send requests of the same campaign both went through
C13_Witness ==
  \E r1, r2 \in Slots :
    /\ r1 < r2
    /\ IsDone(r1, "send") /\ IsDone(r2, "send")
    /\ req[r1].id = req[r2].id
    /\ resp[r1].status = 200 /\ resp[r1].sentCount = 2
    /\ resp[r2].status = 200 /\ resp[r2].sentCount = 2
    /\ Cardinality({x \in sends : x.campaignId = req[r1].id}) = 2

\* C14: a send request on a campaign with an approved draft ends with a Send
\* of status sent for exactly the customers of the campaign's approved
\* drafts, answers sentCount = the number of approved drafts and failedCount
\* 0, and leaves the campaign sent.
ApprovedCustomers(id) ==
  {d.customerId : d \in {x \in drafts : x.campaignId = id /\ x.status = "approved"}}

C14_SendApproved ==
  [][\A r \in Slots :
       /\ (pc[r] = "send_find" /\ pc'[r] # pc[r]
              /\ ApprovedCustomers(req[r].id) # {}
              /\ \E c \in campaigns : c.id = req[r].id)
            => pc'[r] = "send_upsert"
       /\ (pc[r] = "send_status" /\ pc'[r] = "done")
            => /\ resp'[r] = [status |-> 200,
                              sentCount |-> Cardinality(ApprovedCustomers(req[r].id)),
                              failedCount |-> 0]
               /\ {x.customerId : x \in {s \in sends : s.campaignId = req[r].id}}
                    = ApprovedCustomers(req[r].id)
               /\ \A x \in sends : x.campaignId = req[r].id => x.status = "sent"
               /\ Row(campaigns', req[r].id).status = "sent"]_vars

\* one draft approved and sent, the other one rejected and without a Send
C14_Witness ==
  \E r \in Slots, d \in drafts :
    /\ IsDone(r, "send")
    /\ resp[r].status = 200
    /\ resp[r].sentCount = 1
    /\ d.campaignId = req[r].id
    /\ d.status = "rejected"
    /\ ~\E x \in sends : x.campaignId = d.campaignId /\ x.customerId = d.customerId
    /\ Cardinality({x \in sends : x.campaignId = req[r].id}) = 1
    /\ Row(campaigns, req[r].id).status = "sent"

\* C15: every stored customer email is lowercase and trimmed, no two
\* customers have the same email, and two answered ingest requests whose
\* emails are equal after trimming and lowercasing name the same customer.
Answered(r) == IsDone(r, "events") /\ resp[r].status \in {200, 201}

C15_UniqueNormalizedEmail ==
  /\ \A c \in customers :
       /\ \A i \in DOMAIN c.email : c.email[i] = LowerChar(c.email[i])
       /\ ~IsSpace(c.email[1]) /\ ~IsSpace(c.email[Len(c.email)])
  /\ \A c1, c2 \in customers : c1.email = c2.email => c1 = c2
  /\ \A r1, r2 \in Slots :
       (/\ Answered(r1) /\ Answered(r2)
        /\ ToLowerCase(Trim(req[r1].body.email.v)) = ToLowerCase(Trim(req[r2].body.email.v)))
       => resp[r1].customerId = resp[r2].customerId

\* " A@x.y" and "a@x.y" were stored for one customer
C15_Witness ==
  \E r1, r2 \in Slots :
    /\ Answered(r1) /\ Answered(r2)
    /\ req[r1].body.email.v = EmailARaw
    /\ req[r2].body.email.v = EmailA
    /\ resp[r1].customerId = resp[r2].customerId
    /\ Cardinality({e \in events : e.customerId = resp[r1].customerId}) = 2
    /\ Cardinality({c \in customers : c.email = EmailA}) = 1

\* C16: a valid ingest request without an Idempotency-Key header, or with an
\* empty one, carries a null key, and it ends by storing a new event with a
\* null key and answering created:true, whatever is already stored.
Keyless(r) == req[r].op = "events" /\ req[r].header \in {NoKey, ""}

C16_OptInIdempotency ==
  [][\A r \in Slots :
       /\ (pc'[r] \in EventPcs /\ req'[r].op = "events" /\ req'[r].header \in {NoKey, ""})
            => loc'[r].data.idempotencyKey = NoKey
       /\ (pc[r] \in EventPcs /\ Keyless(r) /\ pc'[r] = "done")
            => /\ resp'[r].status = 201
               /\ resp'[r].created = TRUE
               /\ \E e \in events' \ events :
                    /\ e.id = resp'[r].eventId
                    /\ e.idempotencyKey = NoKey
                    /\ e.customerId = resp'[r].customerId
                    /\ events' = events \cup {e}]_vars

\* two stored events that differ in nothing but their id, the second one sent
\* with an empty header
C16_Witness ==
  \E r \in Slots, e1, e2 \in events :
    /\ IsDone(r, "events")
    /\ req[r].header = ""
    /\ resp[r].status = 201
    /\ resp[r].eventId = e2.id
    /\ e1.id # e2.id
    /\ [e1 EXCEPT !.id = 0] = [e2 EXCEPT !.id = 0]
    /\ e1.idempotencyKey = NoKey

\* C17: a segment evaluation answers count = the number of distinct matching
\* customers, not capped, and as customers the first min(count, 50) matching
\* customers in ascending order of email: no other customer and none twice.
Matching(id) ==
  {c \in customers :
     c.id \in MatchingIds(validateSegmentDefinition(Row(segments, id).definition).definition)}

C17_PreviewCountAndList ==
  \A r \in Slots :
    (IsDone(r, "preview") /\ resp[r].status = 200) =>
      LET list == resp[r].customers
          matching == Matching(req[r].id)
      IN /\ resp[r].count = Cardinality(matching)
         /\ Len(list) = Min(resp[r].count, 50)
         /\ \A i \in DOMAIN list : list[i] \in matching
         /\ \A i, j \in DOMAIN list : i < j => LexLess(list[i].email, list[j].email)
         /\ \A c \in matching :
              (\A i \in DOMAIN list : list[i] # c) =>
                \A i \in DOMAIN list : LexLess(list[i].email, c.email)

\* more than 50 customers match: the count says how many, the list stops at 50
C17_Witness ==
  \E r \in Slots :
    /\ IsDone(r, "preview")
    /\ resp[r].status = 200
    /\ resp[r].count = 51
    /\ Len(resp[r].customers) = 50
    /\ resp[r].customers[1].email = BigEmail(1)
    /\ resp[r].customers[50].email = BigEmail(50)

\* the definition request r previews, and what a preview that ends answers
PreviewedDefinition(r) ==
  validateSegmentDefinition(Row(segments, req[r].id).definition).definition

PreviewEnds(r) == pc[r] \in {"pv_match", "pv_fetch"} /\ pc'[r] = "done"

\* the events of customer c with that type at or after now minus days
EventsInLastDays(c, eventType, days) ==
  {e \in events : /\ e.customerId = c.id
                  /\ e.type = eventType
                  /\ e.occurredAt >= now - days}

Answers(r, result) ==
  /\ resp'[r].status = 200
  /\ resp'[r].count = Cardinality(result)
  /\ {resp'[r].customers[i] : i \in DOMAIN resp'[r].customers} = result

\* C18: the evaluation of a valid event_type_in_last_days definition answers
\* exactly the customers with an event of type eventType that occurred at or
\* after now minus days.
C18_TypeInLastDays ==
  [][\A r \in Slots :
       (PreviewEnds(r) /\ PreviewedDefinition(r).kind = "event_type_in_last_days") =>
         LET d == PreviewedDefinition(r)
         IN Answers(r, {c \in customers : EventsInLastDays(c, d.eventType, d.days) # {}})]_vars

\* a is answered for a page view exactly at the cutoff; b, who has an older
\* page view and a purchase inside the window, is not
C18_Witness ==
  \E r \in Slots :
    /\ IsDone(r, "preview")
    /\ req[r].id = 1
    /\ resp[r].status = 200
    /\ resp[r].customers = << [id |-> 1, email |-> EmailA] >>
    /\ \A e \in events : (e.customerId = 1 /\ e.type = TypePv) => e.occurredAt <= now - 7
    /\ \E e \in events : e.customerId = 2 /\ e.type = TypePv /\ e.occurredAt < now - 7
    /\ \E e \in events : e.customerId = 2 /\ e.type = TypeBuy /\ e.occurredAt >= now - 7

\* C19: the evaluation of a valid event_count_gte_in_last_days definition
\* answers exactly the customers who have at least minCount events of type
\* eventType at or after now minus days.
C19_CountGteInLastDays ==
  [][\A r \in Slots :
       (PreviewEnds(r) /\ PreviewedDefinition(r).kind = "event_count_gte_in_last_days") =>
         LET d == PreviewedDefinition(r)
         IN Answers(r, {c \in customers :
                          Cardinality(EventsInLastDays(c, d.eventType, d.days))
                            >= d.minCount})]_vars

\* minCount 3: a has three page views in the window and is answered, b has
\* two and is not
C19_Witness ==
  \E r \in Slots :
    /\ IsDone(r, "preview")
    /\ req[r].id = 2
    /\ resp[r].status = 200
    /\ resp[r].count = 1
    /\ resp[r].customers = << [id |-> 1, email |-> EmailA] >>
    /\ Cardinality({e \in events : /\ e.customerId = 1 /\ e.type = TypePv
                                    /\ e.occurredAt >= now - 7}) = 3
    /\ Cardinality({e \in events : /\ e.customerId = 2 /\ e.type = TypePv
                                    /\ e.occurredAt >= now - 7}) = 2

\* C20: validateSegmentDefinition accepts exactly the non-array objects
\* whose kind is one of the three known kinds and whose fields follow the
\* rules of that kind; any other input yields valid:false with an error
\* string and no definition (and POST /api/segments stores nothing).
IsNonBlankString(j) == j.t = "string" /\ \E i \in DOMAIN j.v : j.v[i] # " "

IsPositiveInteger(j) == j.t = "number" /\ j.int /\ j.v >= 1

Acceptable(def) ==
  /\ def.t = "object"
  /\ Field(def.v, "kind").t = "string"
  /\ Field(def.v, "kind").v \in {"event_type_in_last_days", "event_property_equals",
                                  "event_count_gte_in_last_days"}
  /\ IsNonBlankString(Field(def.v, "eventType"))
  /\ IsPositiveInteger(Field(def.v, "days"))
  /\ Field(def.v, "kind").v = "event_property_equals" =>
       IsNonBlankString(Field(def.v, "path")) /\ Field(def.v, "value").t = "string"
  /\ Field(def.v, "kind").v = "event_count_gte_in_last_days" =>
       IsPositiveInteger(Field(def.v, "minCount"))

C20_ValidatorAccepts ==
  \A r \in Slots :
    IsDone(r, "segments") =>
      LET def == req[r].body.definition
          result == validateSegmentDefinition(def)
      IN /\ result.valid <=> Acceptable(def)
         /\ result.valid =>
              /\ DOMAIN result = {"valid", "definition"}
              /\ resp[r].status = 201
         /\ ~result.valid =>
              /\ DOMAIN result = {"valid", "error"}
              /\ result.error # << >>
              /\ resp[r].status = 400
              /\ segments = {}

\* an event_property_equals definition with an empty value was accepted
C20_Witness ==
  \E r \in Slots :
    /\ IsDone(r, "segments")
    /\ resp[r].status = 201
    /\ req[r].body.definition.v["kind"] = JStr("event_property_equals")
    /\ req[r].body.definition.v["value"] = JStr(<< >>)
    /\ req[r].body.definition.v["eventType"] = JStr(<< " ", "p", "v" >>)
    /\ segments # {}

\* C21: an object without a string kind is refused with the error about the
\* 'kind' field, an object whose kind is a string outside the three known
\* kinds with an error that quotes that string; POST /api/segments answers
\* 400 with that very error and stores no segment.
C21_KindErrors ==
  \A r \in Slots :
    (IsDone(r, "segments") /\ req[r].body.definition.t = "object") =>
      LET d == req[r].body.definition.v
          result == validateSegmentDefinition(req[r].body.definition)
      IN /\ Field(d, "kind").t # "string" =>
              /\ ~result.valid
              /\ result.error = << "Definition must have a 'kind' field" >>
              /\ resp[r] = [status |-> 400, error |-> result.error]
              /\ segments = {}
         /\ (/\ Field(d, "kind").t = "string"
             /\ d["kind"].v \notin {"event_type_in_last_days", "event_property_equals",
                                      "event_count_gte_in_last_days"}) =>
              /\ ~result.valid
              /\ \E i \in DOMAIN result.error : result.error[i] = d["kind"].v
              /\ resp[r] = [status |-> 400, error |-> result.error]
              /\ segments = {}

\* kind "event_seen" was refused by name
C21_Witness ==
  \E r \in Slots :
    /\ IsDone(r, "segments")
    /\ req[r].body.definition.t = "object"
    /\ Field(req[r].body.definition.v, "kind") = JStr("event_seen")
    /\ resp[r].status = 400
    /\ resp[r].error = << "Unknown definition kind: '", "event_seen", "'" >>
    /\ segments = {}

\* C22: every string field of an accepted definition (eventType, and for
\* event_property_equals also path and value) is the trimmed input field and
\* has no whitespace at either end.
Trimmed(str) == str = << >> \/ (~IsSpace(str[1]) /\ ~IsSpace(str[Len(str)]))

C22_StringFieldsTrimmed ==
  \A r \in Slots :
    (IsDone(r, "segments") /\ resp[r].status = 201) =>
      LET d == req[r].body.definition.v
          definition == validateSegmentDefinition(req[r].body.definition).definition
      IN \A k \in {"eventType", "path", "value"} \cap DOMAIN definition :
           /\ Trimmed(definition[k])
           /\ definition[k] = Trim(d[k].v)

\* C23: extractRecommendedSku answers the trimmed sku of the first event, in
\* the newest-first list it is given, whose properties is an object with a
\* string sku that is not blank, and null when there is no such event.
NewestFirst(customerId) ==
  CHOOSE evs \in OrderedDesc({e \in events : e.customerId = customerId}) : TRUE

C23_RecommendedSku ==
  \A d \in drafts :
    d.recommendedSku = FirstSku(NewestFirst(d.customerId))

\* the newest event has null properties, the next one a blank sku, the oldest
\* one the sku " W2"
C23_Witness ==
  \E d \in drafts :
    /\ d.recommendedSku = JStr(<< "W", "2" >>)
    /\ \E e1, e2, e3 \in events :
         /\ e1.occurredAt > e2.occurredAt /\ e2.occurredAt > e3.occurredAt
         /\ e1.properties = JNull
         /\ e2.properties = JObj((KeySku :> JStr(SkuBlank)))
         /\ e3.properties = JObj((KeySku :> JStr(SkuW2Raw)))

\* C24: the provider picks the kind by priority: event_property_equals when
\* the prompt matches the pricing pattern, a count phrase or not; otherwise
\* event_count_gte_in_last_days when a positive minimum count was parsed;
\* otherwise event_type_in_last_days.
PromptOf(r) == ToLowerCase(Trim(req[r].body.prompt.v))

Generated(r) == IsDone(r, "smart-segment") /\ resp[r].status = 200

C24_KindPriority ==
  \A r \in Slots :
    Generated(r) =>
      resp[r].definition.v["kind"].v =
        IF pricingMatch(PromptOf(r)).ok THEN "event_property_equals"
        ELSE IF parseMinCount(PromptOf(r)) > 0 THEN "event_count_gte_in_last_days"
        ELSE "event_type_in_last_days"

\* "Pricing page at least 3" was answered with event_property_equals
C24_Witness ==
  \E r \in Slots :
    /\ Generated(r)
    /\ Includes(PromptOf(r), Words.pricing)
    /\ parseMinCount(PromptOf(r)) = 3
    /\ resp[r].definition.v["kind"].v = "event_property_equals"

\* C30: every definition the provider returns passes
\* validateSegmentDefinition.
C30_ProviderDefinitionsValid ==
  \A r \in Slots :
    Generated(r) => validateSegmentDefinition(resp[r].definition).valid

\* C25: of two concurrent PATCH requests on a generated draft only one
\* writes: whenever a PATCH writes the status, the draft is still generated
\* (so the other one is answered 409 and a decided draft keeps its status).
C25_ConcurrentPatchOnce ==
  [][\A r \in Slots :
       (pc[r] = "patch_update" /\ pc'[r] = "done")
         => \E d \in drafts : d.id = req[r].draftId /\ d.status = "generated"]_vars

\* C28: each Send belongs to an approved draft of the same campaign and
\* customer.
C28_SendsOfApprovedDrafts ==
  \A x \in sends :
    \E d \in drafts :
      /\ d.campaignId = x.campaignId
      /\ d.customerId = x.customerId
      /\ d.status = "approved"

\* C26: a send request on a campaign without an approved draft is answered
\* 400 and changes neither the Send table nor the campaign, whatever its
\* other drafts are.
C26_SendWithoutApproved ==
  [][\A r \in Slots :
       (/\ pc[r] = "send_find" /\ pc'[r] # pc[r]
        /\ \E c \in campaigns : c.id = req[r].id
        /\ ApprovedCustomers(req[r].id) = {})
       => /\ pc'[r] = "done"
          /\ resp'[r].status = 400
          /\ sends' = sends
          /\ campaigns' = campaigns
          /\ drafts' = drafts]_vars

\* refused while the campaign had a generated and a rejected draft
C26_Witness ==
  \E r \in Slots, d1, d2 \in drafts :
    /\ IsDone(r, "send")
    /\ resp[r].status = 400
    /\ d1.campaignId = req[r].id /\ d1.status = "generated"
    /\ d2.campaignId = req[r].id /\ d2.status = "rejected"
    /\ sends = {}
    /\ Row(campaigns, req[r].id).status = "drafted"

\* C27: every stored segment definition and every campaign snapshot passes
\* validateSegmentDefinition, and no preview or generate-drafts request is
\* answered with the error of an invalid definition.
C27_StoredDefinitionsValid ==
  /\ \A s \in segments : validateSegmentDefinition(s.definition).valid
  /\ \A c \in campaigns : validateSegmentDefinition(c.segmentSnapshot).valid
  /\ \A r \in Slots :
       (IsDone(r, "preview") \/ IsDone(r, "generate")) => resp[r].status \in {200, 404}

\* drafts were generated from the snapshot of a segment that was posted with
\* the path " sku" and stored with the path "sku"
C27_Witness ==
  \E r \in Slots, s \in segments, c \in campaigns :
    /\ IsDone(r, "generate") /\ resp[r].status = 200 /\ resp[r].draftedCount = 1
    /\ c.id = req[r].id
    /\ c.segmentSnapshot = s.definition
    /\ s.definition = DefProperty(TypePv, KeySku, SkuW, 7)
    /\ drafts # {}

\* C29: a step of generate-drafts for a campaign leaves customers, events,
\* segments and Sends as they are; keeps every draft with its id, campaign,
\* customer and status; changes the content only of drafts of that campaign
\* for customers the snapshot matches; creates drafts only for such customers,
\* with status generated; and changes nothing of a campaign but the status
\* of its own.
GenerateSteps(r) ==
  /\ pc[r] \in GenerateReadPcs \cup {"gen_upsert", "gen_status"}
  /\ pc'[r] # pc[r] \/ loc'[r] # loc[r]

MatchedNow(id) ==
  MatchingIds(validateSegmentDefinition(Row(campaigns, id).segmentSnapshot).definition)

C29_GenerateFrame ==
  [][\A r \in Slots :
       GenerateSteps(r) =>
         /\ customers' = customers /\ events' = events
         /\ segments' = segments /\ sends' = sends
         /\ \A d \in drafts :
              \E d2 \in drafts' :
                /\ d2.id = d.id /\ d2.campaignId = d.campaignId
                /\ d2.customerId = d.customerId /\ d2.status = d.status
                /\ d2 # d => d.campaignId = req[r].id /\ d.customerId \in MatchedNow(req[r].id)
         /\ \A d2 \in drafts' :
              (~\E d \in drafts : d.id = d2.id) =>
                /\ d2.status = "generated"
                /\ d2.campaignId = req[r].id
                /\ d2.customerId \in MatchedNow(req[r].id)
         /\ Cardinality(campaigns') = Cardinality(campaigns)
         /\ \A c \in campaigns :
              \E c2 \in campaigns' :
                /\ c2.id = c.id
                /\ c.id # req[r].id => c2 = c
                /\ [c2 EXCEPT !.status = c.status] = c]_vars

\* a run after the second customer stopped matching: their approved draft is
\* still there, the first customer's draft is still rejected, the other
\* campaign has its drafts and the Send of an earlier send request is there
C29_Witness ==
  \E r \in Slots, d1, d2, d3 \in drafts :
    /\ IsDone(r, "generate") /\ resp[r].status = 200 /\ resp[r].draftedCount = 1
    /\ now = 1
    /\ d1.campaignId = req[r].id /\ d1.customerId = 1 /\ d1.status = "rejected"
    /\ d2.campaignId = req[r].id /\ d2.customerId = 2 /\ d2.status = "approved"
    /\ d3.campaignId # req[r].id
    /\ \E x \in sends : x.campaignId = req[r].id /\ x.customerId = 2

====
